---- MODULE Spec2Model ----
(***************************************************************************)
(* State-machine model of the processing pipeline's resilience layer:      *)
(*   - FileTrackingDatabase  (src/src/utils/database.py)                   *)
(*   - CircuitBreaker        (src/src/utils/retry.py)                      *)
(*   - exponential_backoff_retry  (src/src/utils/retry.py)                 *)
(*   - CacheManager          (src/src/utils/async_processor.py)            *)
(* Time is counted in whole hours.  `clock` is the UTC instant; the host's *)
(* local wall clock is clock + utc_offset.                                 *)
(***************************************************************************)
EXTENDS Integers, Sequences, FiniteSets, TLC

VARIABLES
    clock,               \* UTC time, in hours since the start of the run
    utc_offset,          \* local time - UTC of the host, in hours (fixed by the environment)
    processed_files,     \* table processed_files: a set of rows
    processing_history,  \* table processing_history: a set of rows
    history_seq,         \* AUTOINCREMENT counter of processing_history.id
    ret,                 \* the count the last store call returned (0 if it returns nothing)
    store_exc,           \* the exception that left the last store call, and the statement
                         \* that raised it (None if the call returned)
    cb,                  \* one CircuitBreaker instance: its fields
    cb_time,             \* time.time() seen by the breaker, in seconds
    cb_out,              \* the last CircuitBreaker.call and its outcome
    cb_local,            \* per worker thread: where it is in CircuitBreaker.call
    cb_log,              \* what the calls of the worker threads did so far
    policy,              \* the arguments of exponential_backoff_retry
    func,                \* the wrapped function: what its n-th invocation does
    attempt,             \* wrapper: the loop variable
    delay,               \* wrapper: the local delay
    last_exception,      \* wrapper: the local last_exception
    calls,               \* invocations of func made by the current wrapper call
    sleeps,              \* durations of the time.sleep calls of the current wrapper call
    rt_out,              \* where the wrapper call is, and how it ended
    cache,               \* CacheManager.cache: key -> entry, for the keys present
    ttl_seconds,         \* CacheManager.ttl_seconds
    cache_time,          \* time.time() seen by the cache, in seconds
    cache_ret,           \* the last CacheManager.get and what it returned
    set_log,             \* per key, the most recent set: its value, its time, and
                         \* whether clear() was called since
    cache_local,         \* per worker thread: where it is in a CacheManager call
    cache_log,           \* the calls the worker threads began, the errors they raised
    last_call_time,      \* RateLimiter.last_call_time
    min_interval,        \* RateLimiter.min_interval
    rl_time,             \* time.time() seen by the rate limiter, in seconds
    rl_local,            \* per worker thread: where it is in wait_if_needed, and
                         \* the time its sleep ends
    grants,              \* the times at which wait_if_needed let a caller proceed
    papers,              \* process_papers_batch: the argument papers
    max_workers,         \* AsyncPaperProcessor.max_workers
    futures,             \* per paper: the state of its future and its result
    results,             \* process_papers_batch: the local results
    completed,           \* process_papers_batch: the local completed
    progress,            \* the calls of progress_callback made so far
    batch_pc,            \* where the main thread is in a sync cycle
    process,             \* the process: running, in the signal handler, or exited
    drive_files,         \* the PDFs in the monitored folder
    last_check,          \* DriveMonitor.last_check
    attempted,           \* collaborator calls made in the current cycle
    summary,             \* the counts of the last cycle's summary
    cycles,              \* sync cycles started so far
    circuits,            \* drive_circuit, gemini_circuit and notion_circuit
    last_run             \* the last direct call of process_paper_improved

storeVars == <<clock, utc_offset, processed_files, processing_history, history_seq, ret, store_exc>>
cbVars == <<cb, cb_time, cb_out, cb_local, cb_log>>
retryVars == <<policy, func, attempt, delay, last_exception, calls, sleeps, rt_out>>
cacheVars == <<cache, ttl_seconds, cache_time, cache_ret, set_log, cache_local, cache_log>>
limiterVars == <<last_call_time, min_interval, rl_time, rl_local, grants>>
batchVars == <<papers, max_workers, futures, results, completed, progress, batch_pc, process>>
syncVars == <<drive_files, last_check, attempted, summary, cycles, circuits, last_run>>
restVars == <<limiterVars, batchVars, syncVars>>
vars == <<clock, utc_offset, processed_files, processing_history, history_seq, ret, store_exc,
          cb, cb_time, cb_out, cb_local, cb_log,
          policy, func, attempt, delay, last_exception, calls, sleeps, rt_out,
          cache, ttl_seconds, cache_time, cache_ret, set_log, cache_local, cache_log,
          last_call_time, min_interval, rl_time, rl_local, grants,
          papers, max_workers, futures, results, completed, progress, batch_pc, process,
          drive_files, last_check, attempted, summary, cycles, circuits, last_run>>

-----------------------------------------------------------------------------
(* Bounds of the model *)

MaxDays == 1             \* days the clock runs for
MaxHistory == 2          \* rows ever inserted into processing_history

HoursPerDay == 24        \* SQLite's 'N days' and '-1 day' modifiers, in hours

-----------------------------------------------------------------------------
(* Values *)

None == "None"           \* Python None
NULL == "NULL"           \* SQL NULL
EmptyDict == "{}"        \* Python {} (falsy)

FileIds == {"f1", "f2"}
FileNames == {"a.pdf"}
\* (notion_page_id, metadata) of a mark_as_processed call: both defaulted,
\* an empty dict, a page id with the extracted fields
SuccessArgs == {<<None, None>>, <<None, EmptyDict>>, <<"p1", "{title}">>}
ErrorMessages == {"e1"}
RetryHours == {0, 1, HoursPerDay}
KeepDays == {1}
TickSteps == {1, HoursPerDay}
HourMarks == {0, 1}      \* hours of a day at which the store is used
UtcOffsets == {-1, 0, 1} \* hosts west of, at and east of UTC

\* A line of the legacy text file: its text between leading and trailing
\* white space (pad; the newline is always there).
Line(pad, text) == [pad |-> pad, text |-> text]
Lines == {Line("", "f1"), Line(" ", "f2"), Line("", "")}

\* line.rstrip("\n") without the white space removed
strip_newline_only(line) == line.pad \o line.text \o line.pad
\* line.strip()
strip(line) == line.text

\* the legacy files: every file of so many lines
LineCounts == {0, 1, 2}
TextFiles == UNION {[1..k -> Lines] : k \in LineCounts}
NoFile == <<Line("", "<missing>")>>      \* text_file_path.exists() is false

\* Python truthiness of the optional dict arguments.
Truthy(x) == x \notin {None, EmptyDict}
json_dumps(x) == "json(" \o x \o ")"
\* Binding a Python value as an SQL parameter.
SqlParam(x) == IF x = None THEN NULL ELSE x

\* datetime.now(): naive local time.    datetime('now') in SQLite: UTC.
LocalNow(utc, off) == utc + off
SqlNow(utc) == utc

-----------------------------------------------------------------------------
(* FileTrackingDatabase: the SQL statements as operators on tables *)

\* Faulty variants of the write: a DELETE without its WHERE, a plain INSERT with
\* no key, and an upsert that only sets the columns it names.
ReplaceWholeTable(table, row) == {row}
InsertPlain(table, row) == table \cup {row}
KeepIfNull(new, old) == IF new = NULL THEN old ELSE new
UpsertNamedColumns(table, row) ==
    {r \in table : r.file_id # row.file_id} \cup
    (IF \E r \in table : r.file_id = row.file_id
     THEN {[row EXCEPT !.notion_page_id = KeepIfNull(row.notion_page_id, r.notion_page_id),
                       !.error_message = KeepIfNull(row.error_message, r.error_message),
                       !.metadata = KeepIfNull(row.metadata, r.metadata)] :
              r \in {q \in table : q.file_id = row.file_id}}
     ELSE {row})

\* INSERT OR REPLACE on a table whose PRIMARY KEY is file_id.
InsertOrReplace(table, row) ==
    {r \in table : r.file_id # row.file_id} \cup {row}

\* The row mark_as_processed writes (error_message is not in the column list).
ProcessedRow(file_id, file_name, notion_page_id, metadata, now) ==
    [file_id |-> file_id, file_name |-> file_name, processed_at |-> now,
     notion_page_id |-> SqlParam(notion_page_id), status |-> "completed",
     error_message |-> NULL,
     metadata |-> IF Truthy(metadata) THEN json_dumps(metadata) ELSE NULL]

\* The row mark_as_failed writes (notion_page_id, metadata not in the column list).
FailedRow(file_id, file_name, error_message, now) ==
    [file_id |-> file_id, file_name |-> file_name, processed_at |-> now,
     notion_page_id |-> NULL, status |-> "failed",
     error_message |-> error_message, metadata |-> NULL]

\* _add_history: one INSERT with the next AUTOINCREMENT id.  Both callers pass
\* a non-empty dict, so details is always its JSON text.
HistoryRow(seq, file_id, action, details, now) ==
    [id |-> seq + 1, file_id |-> file_id, action |-> action,
     timestamp |-> now, details |-> json_dumps(details)]

\* Faulty variant: the history keyed by file_id, the new entry replacing the old.
_add_history_keyed(hist, seq, file_id, action, details, now) ==
    {e \in hist : e.file_id # file_id} \cup {HistoryRow(seq, file_id, action, details, now)}

_add_history(hist, seq, file_id, action, details, now) ==
    hist \cup {HistoryRow(seq, file_id, action, details, now)}

\* The store as a value, so that one call can be applied after another.
Store(files, hist, seq) == [files |-> files, hist |-> hist, seq |-> seq]

mark_as_processed_op(s, file_id, file_name, notion_page_id, metadata, now) ==
    Store(InsertOrReplace(s.files,
              ProcessedRow(file_id, file_name, notion_page_id, metadata, now)),
          _add_history(s.hist, s.seq, file_id, "processed",
              "{notion_page_id: " \o notion_page_id \o "}", now),
          s.seq + 1)

\* Faulty variant: INSERT OR IGNORE, which keeps a row that is already there.
mark_as_failed_ignore(s, file_id, file_name, error_message, now) ==
    Store(IF \E r \in s.files : r.file_id = file_id THEN s.files
          ELSE s.files \cup {FailedRow(file_id, file_name, error_message, now)},
          _add_history(s.hist, s.seq, file_id, "failed",
              "{error: " \o error_message \o "}", now),
          s.seq + 1)

mark_as_failed_op(s, file_id, file_name, error_message, now) ==
    Store(InsertOrReplace(s.files, FailedRow(file_id, file_name, error_message, now)),
          _add_history(s.hist, s.seq, file_id, "failed",
              "{error: " \o error_message \o "}", now),
          s.seq + 1)

\* An exception that leaves a store call: its type, and the statement of the
\* call that raised it.
StoreExc(exc, statement) == [exc |-> exc, statement |-> statement]
NoStoreExc == StoreExc(None, None)

\* the statements of a write that may raise: the upsert, _add_history's
\* insert, and conn.commit()
WriteStatements == {"upsert", "history", "commit"}

\* What the connection of a write has written and not committed when
\* `statement` raises, `done` being the tables after the upsert and the
\* history insert.
Pending(s, done, statement) ==
    CASE statement = "upsert" -> s
      [] statement = "history" -> Store(done.files, s.hist, s.seq)
      [] statement = "commit" -> done

\* Faulty variant: the connection is committed when it is closed.
close_commits(committed, pending) == pending

\* _get_connection's finally clause: conn.close() without a commit, which
\* discards what the connection wrote since its last commit.
close(committed, pending) == committed

\* Faulty variant: the lookup finds nothing.
is_processed_in_never(files, file_id) == FALSE

\* SELECT 1 ... WHERE file_id = ? AND status = 'completed'; fetchone() is not None
is_processed_in(files, file_id) ==
    \E r \in files : r.file_id = file_id /\ r.status = "completed"

\* WHERE status = 'failed' AND datetime(processed_at, '+h hours') <= datetime('now')
FailedReady(files, h, utc) ==
    {r \in files : r.status = "failed" /\ r.processed_at + h <= SqlNow(utc)}

\* ORDER BY processed_at ASC: every ordering of the rows the sort allows
\* (rows with equal processed_at come in either order).
OrderedByProcessedAt(rows) ==
    {s \in [1..Cardinality(rows) -> rows] :
        /\ \A i, j \in DOMAIN s : i # j => s[i] # s[j]
        /\ \A i, j \in DOMAIN s : i < j => s[i].processed_at <= s[j].processed_at}

\* dict(row) of the four selected columns
FailedDict(r) ==
    [file_id |-> r.file_id, file_name |-> r.file_name,
     error_message |-> r.error_message, processed_at |-> r.processed_at]

\* GROUP BY status counts, plus last_24h: processed_at >= datetime('now', '-1 day')
StatusCount(files, st) == Cardinality({r \in files : r.status = st})
Stats(files, utc) ==
    [completed |-> StatusCount(files, "completed"),
     failed |-> StatusCount(files, "failed"),
     last_24h |-> Cardinality({r \in files : r.processed_at >= SqlNow(utc) - HoursPerDay})]

\* DELETE FROM processing_history WHERE timestamp < datetime('now', '-d days')
OldHistory(hist, days, utc) ==
    {e \in hist : e.timestamp < SqlNow(utc) - days * HoursPerDay}

\* migrate_from_text_file: the loop over the lines of the file.
RECURSIVE migrate_lines(_, _, _)
migrate_lines(s, lines, now) ==
    IF lines = <<>> THEN s
    ELSE LET file_id == strip(Head(lines))
             s1 == IF file_id # ""
                   THEN mark_as_processed_op(s, file_id, "Migrated file " \o file_id,
                                             None, "{migrated}", now)
                   ELSE s
         IN migrate_lines(s1, Tail(lines), now)

RECURSIVE migrated_count(_)
migrated_count(lines) ==
    IF lines = <<>> THEN 0
    ELSE (IF strip(Head(lines)) # "" THEN 1 ELSE 0) + migrated_count(Tail(lines))

-----------------------------------------------------------------------------
(* FileTrackingDatabase: the operations.  The queries (is_processed,       *)
(* get_failed_files, get_processing_stats) change no table: they are the   *)
(* state functions below.  The other operations are the actions.           *)

CurStore == Store(processed_files, processing_history, history_seq)
SetStore(s) ==
    /\ processed_files' = s.files
    /\ processing_history' = s.hist
    /\ history_seq' = s.seq


is_processed(file_id) == is_processed_in(processed_files, file_id)

\* every list get_failed_files may return in the current state
get_failed_files(retry_after_hours) ==
    {[i \in DOMAIN s |-> FailedDict(s[i])] :
        s \in OrderedByProcessedAt(FailedReady(processed_files, retry_after_hours, clock))}

get_processing_stats == Stats(processed_files, clock)

mark_as_processed(file_id, file_name, notion_page_id, metadata) ==
    /\ history_seq < MaxHistory
    /\ SetStore(mark_as_processed_op(CurStore, file_id, file_name, notion_page_id,
                                     metadata, LocalNow(clock, utc_offset)))
    /\ ret' = 0
    /\ store_exc' = NoStoreExc
    /\ UNCHANGED <<clock, utc_offset, cbVars, retryVars, cacheVars, restVars>>

mark_as_failed(file_id, file_name, error_message) ==
    /\ history_seq < MaxHistory
    /\ SetStore(mark_as_failed_op(CurStore, file_id, file_name, error_message,
                                  LocalNow(clock, utc_offset)))
    /\ ret' = 0
    /\ store_exc' = NoStoreExc
    /\ UNCHANGED <<clock, utc_offset, cbVars, retryVars, cacheVars, restVars>>

\* mark_as_processed in which `statement` raises: the exception passes through
\* the with block (there is no except clause) and the connection is closed.
mark_as_processed_raises(file_id, file_name, notion_page_id, metadata, statement) ==
    /\ history_seq < MaxHistory
    /\ SetStore(close(CurStore,
                      Pending(CurStore,
                              mark_as_processed_op(CurStore, file_id, file_name,
                                  notion_page_id, metadata, LocalNow(clock, utc_offset)),
                              statement)))
    /\ ret' = 0
    /\ store_exc' = StoreExc("sqlite3.OperationalError", statement)
    /\ UNCHANGED <<clock, utc_offset, cbVars, retryVars, cacheVars, restVars>>

\* mark_as_failed in which `statement` raises
mark_as_failed_raises(file_id, file_name, error_message, statement) ==
    /\ history_seq < MaxHistory
    /\ SetStore(close(CurStore,
                      Pending(CurStore,
                              mark_as_failed_op(CurStore, file_id, file_name,
                                  error_message, LocalNow(clock, utc_offset)),
                              statement)))
    /\ ret' = 0
    /\ store_exc' = StoreExc("sqlite3.OperationalError", statement)
    /\ UNCHANGED <<clock, utc_offset, cbVars, retryVars, cacheVars, restVars>>

cleanup_old_records(days_to_keep) ==
    LET old == OldHistory(processing_history, days_to_keep, clock) IN
    /\ processing_history' = processing_history \ old
    /\ ret' = Cardinality(old)
    /\ store_exc' = NoStoreExc
    /\ UNCHANGED <<clock, utc_offset, processed_files, history_seq, cbVars, retryVars, cacheVars, restVars>>

migrate_from_text_file(text_file) ==
    /\ IF text_file = NoFile
       THEN UNCHANGED <<processed_files, processing_history, history_seq>>
       ELSE /\ history_seq + migrated_count(text_file) <= MaxHistory
            /\ SetStore(migrate_lines(CurStore, text_file, LocalNow(clock, utc_offset)))
    /\ ret' = IF text_file = NoFile THEN 0 ELSE migrated_count(text_file)
    /\ store_exc' = NoStoreExc
    /\ UNCHANGED <<clock, utc_offset, cbVars, retryVars, cacheVars, restVars>>

\* Time passes between calls: by an hour or by a day.
Tick(step) ==
    /\ clock + step < (MaxDays + 1) * HoursPerDay
    /\ ((clock + step) % HoursPerDay) \in HourMarks
    /\ clock' = clock + step
    /\ UNCHANGED <<utc_offset, processed_files, processing_history, history_seq, ret, store_exc,
                   cbVars, retryVars, cacheVars, restVars>>

-----------------------------------------------------------------------------
(* exponential_backoff_retry.  One call of the decorated function: the     *)
(* wrapper's loop, one step per invocation of the wrapped function.        *)
(* Delays are whole seconds.                                               *)

MaxRetriesValues == {0, 1, 2, 3}
InitialDelays == {1, 2}
ExponentialBases == {2, 3}
MaxDelays == {3, 8}
ExceptionKinds == {"ConnectionError", "ValueError"}
\* the tuple `exceptions`: a service's transient errors, or the default (Exception,)
ExceptionTuples == {{"ConnectionError"}, ExceptionKinds}
CallNumbers == 1..5

\* the decorator's arguments
Policy(max_retries, initial_delay, exponential_base, max_delay, exceptions) ==
    [max_retries |-> max_retries, initial_delay |-> initial_delay,
     exponential_base |-> exponential_base, max_delay |-> max_delay,
     exceptions |-> exceptions]

Policies ==
    {Policy(m, i, b, d, x) : m \in MaxRetriesValues, i \in InitialDelays,
                             b \in ExponentialBases, d \in MaxDelays,
                             x \in ExceptionTuples}

\* a wrapped function: "ok" or the kind of exception, per invocation
Funcs == [CallNumbers -> {"ok"} \cup ExceptionKinds]

\* the value the n-th invocation returns, the exception it raises
ReturnValue(n) == [n |-> n]
Exc(kind, n) == [kind |-> kind, n |-> n]
NoValue == [n |-> 0]
NoException == [kind |-> None, n |-> 0]

Min(a, b) == IF a <= b THEN a ELSE b

\* Faulty variant: every exception is caught and retried.
RetryableAny(e, exceptions) == TRUE

\* line 76: except exceptions as e
Retryable(e, exceptions) == e.kind \in exceptions

\* Faulty variant: the loop gives up one attempt early.
IsLastAttemptEarly(a, max_retries) == a + 1 >= max_retries

\* line 79: attempt == max_retries
IsLastAttempt(a, max_retries) == a = max_retries

\* line 86: the delay of the sleep that follows
NextDelay(d, p) == Min(d * p.exponential_base, p.max_delay)

\* Faulty variant: exhaustion raises an error of the wrapper's own.
RaiseRetryError(e) == [kind |-> "RetryError", n |-> e.n]

\* line 83: the bare raise
RaiseCurrent(e) == e

RtOut(kind, result, error) == [kind |-> kind, result |-> result, error |-> error]

RetryInit ==
    /\ policy \in Policies
    /\ func \in Funcs
    /\ attempt = 0
    /\ delay = 0
    /\ last_exception = NoException
    /\ calls = 0
    /\ sleeps = <<>>
    /\ rt_out = RtOut("idle", NoValue, NoException)

\* lines 69-73, and 94-96 when the loop has no iteration
wrapper_enter ==
    /\ rt_out.kind = "idle"
    /\ delay' = policy.initial_delay
    /\ last_exception' = NoException
    /\ attempt' = 0
    /\ rt_out' = IF policy.max_retries + 1 > 0
                 THEN RtOut("running", NoValue, NoException)
                 ELSE RtOut("returned", NoValue, NoException)
    /\ UNCHANGED <<policy, func, calls, sleeps, storeVars, cbVars, cacheVars, restVars>>

\* line 75: the invocation returns
func_returns ==
    /\ rt_out.kind = "running"
    /\ calls + 1 \in DOMAIN func
    /\ func[calls + 1] = "ok"
    /\ calls' = calls + 1
    /\ rt_out' = RtOut("returned", ReturnValue(calls + 1), NoException)
    /\ UNCHANGED <<policy, func, attempt, delay, last_exception, sleeps,
                   storeVars, cbVars, cacheVars, restVars>>

\* lines 75-92: the invocation raises
func_raises ==
    /\ rt_out.kind = "running"
    /\ calls + 1 \in DOMAIN func
    /\ func[calls + 1] # "ok"
    /\ calls' = calls + 1
    /\ LET e == Exc(func[calls + 1], calls + 1) IN
       IF Retryable(e, policy.exceptions)
       THEN /\ last_exception' = e
            /\ IF IsLastAttempt(attempt, policy.max_retries)
               THEN /\ rt_out' = RtOut("raised", NoValue, RaiseCurrent(e))
                    /\ UNCHANGED <<attempt, delay, sleeps>>
               ELSE /\ delay' = NextDelay(delay, policy)
                    /\ sleeps' = Append(sleeps, delay')
                    /\ attempt' = attempt + 1
                    /\ UNCHANGED rt_out
       ELSE /\ rt_out' = RtOut("raised", NoValue, e)
            /\ UNCHANGED <<attempt, delay, last_exception, sleeps>>
    /\ UNCHANGED <<policy, func, storeVars, cbVars, cacheVars, restVars>>

RetryIdle ==
    /\ policy = Policy(3, 1, 2, 8, ExceptionKinds)
    /\ func = [n \in CallNumbers |-> "ok"]
    /\ attempt = 0
    /\ delay = 0
    /\ last_exception = NoException
    /\ calls = 0
    /\ sleeps = <<>>
    /\ rt_out = RtOut("idle", NoValue, NoException)

-----------------------------------------------------------------------------
(* CacheManager.  One caller at a time; time is whole seconds.             *)

MaxCacheTime == 3        \* seconds the cache is observed for

CacheKeys == {"k1", "k2"}
CacheValues == {"m1", "m2"}
TtlValues == {1, 2}

\* an entry of the dict, lines 137-140
Entry(value, timestamp) == [value |-> value, timestamp |-> timestamp]

\* __init__: the empty dict
EmptyCache == [k \in {} |-> Entry(None, 0)]

\* self.cache[key] = entry
Put(c, key, entry) == [k \in DOMAIN c \cup {key} |-> IF k = key THEN entry ELSE c[k]]

\* Faulty variant: the stale entry stays in the dict.
DelKept(c, key) == c

\* del self.cache[key]
Del(c, key) == [k \in DOMAIN c \ {key} |-> c[k]]

\* Faulty variant: an entry still counts as fresh when its age equals the ttl.
FreshAtBoundary(entry, now, ttl) == now - entry.timestamp <= ttl

\* line 127: the entry has not expired
Fresh(entry, now, ttl) == now - entry.timestamp < ttl

\* what get(key) returns, lines 125-133
get_result(key) ==
    IF key \in DOMAIN cache /\ Fresh(cache[key], cache_time, ttl_seconds)
    THEN cache[key].value
    ELSE None

CacheRet(key, value, evicted) == [key |-> key, value |-> value, evicted |-> evicted]

\* no set(key, ...) was called yet
NoSet == [value |-> None, timestamp |-> 0, cleared |-> FALSE]

Threads == {"w1", "w2"}

\* a worker thread in get or cleanup_expired: its place, the key of get,
\* the local entry of get, the expired_keys of cleanup_expired still to delete
CacheLocal(pc, key, entry, expired_keys) ==
    [pc |-> pc, key |-> key, entry |-> entry, expired_keys |-> expired_keys]
\* the calls the threads began and the exceptions that left them
CacheLog(begun, errors) == [calls |-> begun, errors |-> errors]

CacheInit ==
    /\ cache = EmptyCache
    /\ ttl_seconds \in TtlValues
    /\ cache_time = 0
    /\ cache_ret = CacheRet(None, None, FALSE)
    /\ set_log = [k \in CacheKeys |-> NoSet]
    /\ cache_local = [t \in Threads |-> CacheLocal("idle", None, Entry(None, 0), {})]
    /\ cache_log = CacheLog(0, {})

\* get
cache_get(key) ==
    /\ cache_ret' = CacheRet(key, get_result(key),
                             key \in DOMAIN cache
                                 /\ ~Fresh(cache[key], cache_time, ttl_seconds))
    /\ IF key \in DOMAIN cache /\ ~Fresh(cache[key], cache_time, ttl_seconds)
       THEN cache' = Del(cache, key)
       ELSE UNCHANGED cache
    /\ UNCHANGED <<ttl_seconds, cache_local, cache_log, cache_time, set_log, storeVars, cbVars, retryVars, restVars>>

\* set
cache_set(key, value) ==
    /\ cache' = Put(cache, key, Entry(value, cache_time))
    /\ set_log' = [set_log EXCEPT ![key] =
                       [value |-> value, timestamp |-> cache_time, cleared |-> FALSE]]
    /\ UNCHANGED <<ttl_seconds, cache_local, cache_log, cache_time, cache_ret, storeVars, cbVars, retryVars, restVars>>

\* clear
cache_clear ==
    /\ cache' = EmptyCache
    /\ set_log' = [k \in CacheKeys |->
                       IF set_log[k] = NoSet THEN NoSet
                       ELSE [set_log[k] EXCEPT !.cleared = TRUE]]
    /\ UNCHANGED <<ttl_seconds, cache_local, cache_log, cache_time, cache_ret, storeVars, cbVars, retryVars, restVars>>

\* Faulty variant: the sweep spares an entry whose age equals the ttl.
StalePastTtl(entry, now, ttl) == now - entry.timestamp > ttl

\* line 152: the entry has expired
Stale(entry, now, ttl) == now - entry.timestamp >= ttl

\* cleanup_expired
cleanup_expired ==
    /\ cache' = [k \in {x \in DOMAIN cache : ~Stale(cache[x], cache_time, ttl_seconds)}
                   |-> cache[k]]
    /\ UNCHANGED <<ttl_seconds, cache_local, cache_log, cache_time, cache_ret, set_log, storeVars, cbVars,
                   retryVars, restVars>>

\* a second passes
CacheTick ==
    /\ cache_time < MaxCacheTime
    /\ cache_time' = cache_time + 1
    /\ UNCHANGED <<cache, ttl_seconds, cache_local, cache_log, cache_ret, set_log, storeVars, cbVars, retryVars, restVars>>

CacheIdle ==
    /\ cache = EmptyCache
    /\ ttl_seconds = 1
    /\ cache_time = 0
    /\ cache_ret = CacheRet(None, None, FALSE)
    /\ set_log = [k \in CacheKeys |-> NoSet]
    /\ cache_local = [t \in Threads |-> CacheLocal("idle", None, Entry(None, 0), {})]
    /\ cache_log = CacheLog(0, {})

-----------------------------------------------------------------------------
(* One CacheManager shared by worker threads.  The class takes no lock: a  *)
(* thread may be preempted between the statements of get and of            *)
(* cleanup_expired; each action below is one statement of thread t.  The   *)
(* list comprehension of cleanup_expired is one step.                      *)

MaxCacheCalls == 4       \* calls the worker threads begin

CacheAt(t, pc) == cache_local[t].pc = pc
CacheGoto(t, pc) == cache_local' = [cache_local EXCEPT ![t].pc = pc]
CacheLeave(t) ==
    cache_local' = [cache_local EXCEPT ![t] = CacheLocal("idle", None, Entry(None, 0), {})]
Begin == cache_log' = [cache_log EXCEPT !.calls = @ + 1]
\* del self.cache[key] or self.cache[key] of a key that is not there
KeyError(t) ==
    /\ cache_log' = [cache_log EXCEPT !.errors = @ \cup {"KeyError"}]
    /\ CacheLeave(t)
    /\ UNCHANGED cache

\* line 125: if key in self.cache
get_contains(t, key) ==
    /\ CacheAt(t, "idle")
    /\ cache_log.calls < MaxCacheCalls
    /\ Begin
    /\ IF key \in DOMAIN cache
       THEN cache_local' = [cache_local EXCEPT ![t].pc = "entry", ![t].key = key]
       ELSE UNCHANGED cache_local                          \* line 133: return None
    /\ UNCHANGED <<cache, ttl_seconds, cache_time, cache_ret, set_log,
                   storeVars, cbVars, retryVars, restVars>>

\* line 126: entry = self.cache[key]
get_entry(t) ==
    /\ CacheAt(t, "entry")
    /\ IF cache_local[t].key \in DOMAIN cache
       THEN /\ cache_local' = [cache_local EXCEPT ![t].pc = "fresh",
                                                  ![t].entry = cache[cache_local[t].key]]
            /\ UNCHANGED <<cache, cache_log>>
       ELSE KeyError(t)
    /\ UNCHANGED <<ttl_seconds, cache_time, cache_ret, set_log,
                   storeVars, cbVars, retryVars, restVars>>

\* line 127: if time.time() - entry['timestamp'] < self.ttl_seconds
get_fresh(t) ==
    /\ CacheAt(t, "fresh")
    /\ IF Fresh(cache_local[t].entry, cache_time, ttl_seconds)
       THEN CacheLeave(t)                                  \* line 129: return the value
       ELSE CacheGoto(t, "del")
    /\ UNCHANGED <<cache, ttl_seconds, cache_time, cache_ret, set_log, cache_log,
                   storeVars, cbVars, retryVars, restVars>>

\* line 132: del self.cache[key]
get_del(t) ==
    /\ CacheAt(t, "del")
    /\ IF cache_local[t].key \in DOMAIN cache
       THEN /\ cache' = Del(cache, cache_local[t].key)
            /\ CacheLeave(t)
            /\ UNCHANGED cache_log
       ELSE KeyError(t)
    /\ UNCHANGED <<ttl_seconds, cache_time, cache_ret, set_log,
                   storeVars, cbVars, retryVars, restVars>>

\* lines 137-140: set, one store into the dict
set_entry(t, key, value) ==
    /\ CacheAt(t, "idle")
    /\ cache_log.calls < MaxCacheCalls
    /\ Begin
    /\ cache' = Put(cache, key, Entry(value, cache_time))
    /\ set_log' = [set_log EXCEPT ![key] =
                       [value |-> value, timestamp |-> cache_time, cleared |-> FALSE]]
    /\ UNCHANGED <<ttl_seconds, cache_time, cache_ret, cache_local,
                   storeVars, cbVars, retryVars, restVars>>

\* lines 149-153: current_time and expired_keys
cleanup_expired_keys(t) ==
    /\ CacheAt(t, "idle")
    /\ cache_log.calls < MaxCacheCalls
    /\ Begin
    /\ cache_local' =
           [cache_local EXCEPT ![t].pc = "sweep",
                               ![t].expired_keys =
                                   {k \in DOMAIN cache :
                                       Stale(cache[k], cache_time, ttl_seconds)}]
    /\ UNCHANGED <<cache, ttl_seconds, cache_time, cache_ret, set_log,
                   storeVars, cbVars, retryVars, restVars>>

\* lines 154-155: the loop over expired_keys, one del per step
cleanup_expired_del(t) ==
    /\ CacheAt(t, "sweep")
    /\ IF cache_local[t].expired_keys = {}
       THEN CacheLeave(t) /\ UNCHANGED <<cache, cache_log>>
       ELSE \E k \in cache_local[t].expired_keys :
                IF k \in DOMAIN cache
                THEN /\ cache' = Del(cache, k)
                     /\ cache_local' = [cache_local EXCEPT ![t].expired_keys = @ \ {k}]
                     /\ UNCHANGED cache_log
                ELSE KeyError(t)
    /\ UNCHANGED <<ttl_seconds, cache_time, cache_ret, set_log,
                   storeVars, cbVars, retryVars, restVars>>

-----------------------------------------------------------------------------
(* RateLimiter.  One instance shared by the worker threads; nothing in     *)
(* wait_if_needed is locked, so its reads, its sleep and its write are     *)
(* separate steps of each thread.  Time is whole seconds.                  *)

MaxRlTime == 5           \* seconds the limiter is observed for
CallsPerMinute == {30, 60}

\* line 126
MinInterval(calls_per_minute) == 60 \div calls_per_minute

RlLocal(pc, wake) == [pc |-> pc, wake |-> wake]

\* __init__; the clock is far from 0, so the first caller does not wait
LimiterInit ==
    /\ \E c \in CallsPerMinute : min_interval = MinInterval(c)
    /\ last_call_time = 0
    /\ rl_time = min_interval
    /\ rl_local = [t \in Threads |-> RlLocal("idle", 0)]
    /\ grants = <<>>

\* lines 131-137: read the clock and last_call_time, decide to sleep
wait_read(t) ==
    /\ rl_local[t].pc = "idle"
    /\ LET time_since_last_call == rl_time - last_call_time IN
       rl_local' = [rl_local EXCEPT ![t] =
                        IF time_since_last_call < min_interval
                        THEN RlLocal("sleeping",
                                     rl_time + (min_interval - time_since_last_call))
                        ELSE RlLocal("stamp", 0)]
    /\ UNCHANGED <<last_call_time, min_interval, rl_time, grants,
                   storeVars, cbVars, retryVars, cacheVars, batchVars, syncVars>>

\* line 137: time.sleep returns
wait_wake(t) ==
    /\ rl_local[t].pc = "sleeping"
    /\ rl_time >= rl_local[t].wake
    /\ rl_local' = [rl_local EXCEPT ![t] = RlLocal("stamp", 0)]
    /\ UNCHANGED <<last_call_time, min_interval, rl_time, grants,
                   storeVars, cbVars, retryVars, cacheVars, batchVars, syncVars>>

\* line 139: stamp last_call_time; the caller proceeds
wait_stamp(t) ==
    /\ rl_local[t].pc = "stamp"
    /\ last_call_time' = rl_time
    /\ grants' = Append(grants, rl_time)
    /\ rl_local' = [rl_local EXCEPT ![t] = RlLocal("idle", 0)]
    /\ UNCHANGED <<min_interval, rl_time,
                   storeVars, cbVars, retryVars, cacheVars, batchVars, syncVars>>

\* a second passes
RlTick ==
    /\ rl_time < MaxRlTime
    /\ rl_time' = rl_time + 1
    /\ UNCHANGED <<last_call_time, min_interval, rl_local, grants,
                   storeVars, cbVars, retryVars, cacheVars, batchVars, syncVars>>

LimiterIdle ==
    /\ min_interval = MinInterval(60)
    /\ last_call_time = 0
    /\ rl_time = min_interval
    /\ rl_local = [t \in Threads |-> RlLocal("idle", 0)]
    /\ grants = <<>>

-----------------------------------------------------------------------------
(* AsyncPaperProcessor.  The main thread submits the papers one by one and *)
(* then collects the futures as they complete; the pool's threads take the *)
(* submitted tasks in order, at most max_workers at a time.                *)
(* ProcessingResult.processing_time is left out.                           *)

WorkerCounts == {1, 2, 3}

\* a dict of the Drive listing (keys id, name, ...), lines 45-52 of monitor.py
DrivePaper(id, name) == [keys |-> "drive", id |-> id, name |-> name]

\* a dict of get_failed_files (keys file_id, file_name, error_message,
\* processed_at), line 144 of database.py
RowPaper(file_id, file_name) == [keys |-> "row", id |-> file_id, name |-> file_name]

\* Faulty variant: the id is never found in the dict.
DictGetIdMissing(paper) == "unknown"

\* line 64: paper.get('id', 'unknown')
DictGetId(paper) == IF paper.keys = "drive" THEN paper.id ELSE "unknown"

\* the batches of the processor on its own: papers with distinct ids
Batches ==
    {<<>>,
     <<DrivePaper("f1", "a.pdf")>>,
     <<DrivePaper("f1", "a.pdf"), DrivePaper("f2", "a.pdf")>>,
     <<DrivePaper("f1", "a.pdf"), DrivePaper("f2", "a.pdf"), DrivePaper("f3", "a.pdf")>>}

\* what a call of process_func does: it returns value, or raises an
\* exception whose str() is value
Returns(value) == [kind |-> "return", value |-> value]
Raises(text) == [kind |-> "raise", value |-> text]
FuncOutcomes == {Returns("True"), Returns("False"), Returns(None), Raises("boom")}

\* bool(result)
bool(value) == value \notin {None, "False", EmptyDict}

ProcessingResult(item_id, success, result, error) ==
    [item_id |-> item_id, success |-> success, result |-> result, error |-> error]
NoResult == ProcessingResult(None, FALSE, None, None)

\* what a finished future holds: a result, or the exception the task raised
FutureDone(result, exception) ==
    [state |-> "finished", result |-> result, exception |-> exception, yielded |-> FALSE]
Future(state) ==
    [state |-> state, result |-> NoResult, exception |-> None, yielded |-> FALSE]

\* Faulty variant: an exception of process_func leaves the task uncaught.
_process_single_uncaught(paper, outcome) ==
    IF outcome.kind = "return"
    THEN FutureDone(ProcessingResult(DictGetId(paper), bool(outcome.value),
                                     outcome.value, None), None)
    ELSE FutureDone(NoResult, outcome.value)

\* _process_single
_process_single(paper, outcome) ==
    IF outcome.kind = "return"
    THEN FutureDone(ProcessingResult(DictGetId(paper), bool(outcome.value),
                                     outcome.value, None), None)
    ELSE FutureDone(ProcessingResult(DictGetId(paper), FALSE, None, outcome.value), None)

InState(st) == {i \in DOMAIN futures : futures[i].state = st}

\* main_refactored.py lines 195-209: the cycle ends when there is nothing to
\* do, or else process_papers_batch is entered with these papers
EnterBatch(all_files) ==
    /\ papers' = all_files
    /\ futures' = [i \in DOMAIN all_files |-> Future("unsubmitted")]
    /\ results' = <<>>
    /\ completed' = 0
    /\ progress' = <<>>
    /\ batch_pc' = IF all_files = <<>> THEN "idle" ELSE "submitting"

BatchInit ==
    /\ papers \in Batches
    /\ max_workers \in WorkerCounts
    /\ futures = [i \in DOMAIN papers |-> Future("unsubmitted")]
    /\ results = <<>>
    /\ completed = 0
    /\ progress = <<>>
    /\ batch_pc = IF papers = <<>> THEN "collecting" ELSE "submitting"
    /\ process = "running"

\* lines 39-42: the next paper is submitted to the executor
submit ==
    /\ process = "running"
    /\ batch_pc = "submitting"
    /\ LET i == CHOOSE k \in InState("unsubmitted") :
                    \A j \in InState("unsubmitted") : k <= j
       IN  /\ futures' = [futures EXCEPT ![i].state = "pending"]
           /\ batch_pc' = IF i = Len(papers) THEN "collecting" ELSE "submitting"
    /\ UNCHANGED <<papers, max_workers, results, completed, progress, process,
                   storeVars, cbVars, retryVars, cacheVars, limiterVars, syncVars>>

\* a thread of the pool takes the oldest task waiting in the queue
worker_start(i) ==
    /\ process # "exited"
    /\ i \in InState("pending")
    /\ \A j \in InState("pending") : i <= j
    /\ Cardinality(InState("running")) < max_workers
    /\ futures' = [futures EXCEPT ![i].state = "running"]
    /\ UNCHANGED <<papers, max_workers, results, completed, progress, batch_pc, process,
                   storeVars, cbVars, retryVars, cacheVars, limiterVars, syncVars>>

\* the task of paper i ends: process_func did outcome
worker_finish(i, outcome) ==
    /\ process # "exited"
    /\ i \in InState("running")
    /\ futures' = [futures EXCEPT ![i] = _process_single(papers[i], outcome)]
    /\ UNCHANGED <<papers, max_workers, results, completed, progress, batch_pc, process,
                   storeVars, cbVars, retryVars, cacheVars, limiterVars, syncVars>>

\* lines 45-57: as_completed yields a finished future
collect(i) ==
    /\ process = "running"
    /\ batch_pc = "collecting"
    /\ i \in InState("finished")
    /\ ~futures[i].yielded
    /\ futures' = [futures EXCEPT ![i].yielded = TRUE]
    /\ IF futures[i].exception # None
       THEN /\ batch_pc' = "raised"
            /\ UNCHANGED <<results, completed, progress>>
       ELSE /\ results' = Append(results, futures[i].result)
            /\ completed' = completed + 1
            /\ progress' = Append(progress, <<completed + 1, Len(papers)>>)
            /\ UNCHANGED batch_pc
    /\ UNCHANGED <<papers, max_workers, process,
                   storeVars, cbVars, retryVars, cacheVars, limiterVars, syncVars>>

\* line 59: every future was yielded
batch_return ==
    /\ process = "running"
    /\ batch_pc = "collecting"
    /\ \A i \in DOMAIN futures : futures[i].yielded
    /\ batch_pc' = "returned"
    /\ UNCHANGED <<papers, max_workers, futures, results, completed, progress, process,
                   storeVars, cbVars, retryVars, cacheVars, limiterVars, syncVars>>

BatchIdle ==
    /\ papers = <<>>
    /\ max_workers = 1
    /\ futures = <<>>
    /\ results = <<>>
    /\ completed = 0
    /\ progress = <<>>
    /\ batch_pc = "idle"
    /\ process = "running"

-----------------------------------------------------------------------------
(* CircuitBreaker.  One caller at a time; a call is two steps, the gate    *)
(* (lines 28-36) and the outcome of the wrapped function (lines 38-47),    *)
(* and time may pass while the wrapped function runs.                      *)

MaxCbTime == 6           \* seconds the breaker is observed for

FailureThresholds == {1, 2, 3}
RecoveryTimeouts == {1, 2}
ReturnValues == {"v1", "v2"}
Exceptions == {"E1", "E2"}
CircuitOpenError == "PaperpileNotionError"

\* __init__
CircuitBreaker(failure_threshold, recovery_timeout) ==
    [failure_threshold |-> failure_threshold, recovery_timeout |-> recovery_timeout,
     failure_count |-> 0, last_failure_time |-> 0, state |-> "CLOSED"]

\* Faulty variant: any failure opens the breaker.
_record_failure_trips(b, now) ==
    [b EXCEPT !.failure_count = @ + 1, !.last_failure_time = now, !.state = "OPEN"]

\* Faulty variant: opens only past the threshold.
_record_failure_late(b, now) ==
    LET n == b.failure_count + 1 IN
    [b EXCEPT !.failure_count = n,
              !.last_failure_time = now,
              !.state = IF n > b.failure_threshold THEN "OPEN" ELSE b.state]

\* _record_failure
_record_failure(b, now) ==
    LET n == b.failure_count + 1 IN
    [b EXCEPT !.failure_count = n,
              !.last_failure_time = now,
              !.state = IF n >= b.failure_threshold THEN "OPEN" ELSE b.state]

\* Faulty variant: the cooldown counts as over at the boundary.
CooldownOverAtBoundary(b, now) == now - b.last_failure_time >= b.recovery_timeout

\* line 29: has the cooldown passed?
CooldownOver(b, now) == now - b.last_failure_time > b.recovery_timeout
\* line 35: the cooldown left, as the rejection reports it
RetryAfter(b, now) == b.recovery_timeout - (now - b.last_failure_time)

\* Faulty variant: the breaker stays open while the trial call runs.
EnterHalfOpenSkipped(b) == b

\* Faulty variant: entering half_open forgets the failures counted so far.
EnterHalfOpenReset(b) == [b EXCEPT !.state = "HALF_OPEN", !.failure_count = 0]

\* line 30: the cooldown is over, the call becomes the trial call
EnterHalfOpen(b) == [b EXCEPT !.state = "HALF_OPEN"]

\* Faulty variant: every success clears the count.
OnReturnClearsCount(b) == [b EXCEPT !.state = "CLOSED", !.failure_count = 0]

\* Faulty variant: a successful trial closes the breaker but keeps the count.
OnReturnKeepCount(b) ==
    IF b.state = "HALF_OPEN" THEN [b EXCEPT !.state = "CLOSED"] ELSE b

\* lines 40-43: a normal return of the wrapped function
OnReturn(b) ==
    IF b.state = "HALF_OPEN"
    THEN [b EXCEPT !.state = "CLOSED", !.failure_count = 0]
    ELSE b

\* Faulty variant: the caller gets the breaker's own error instead.
ReraiseAsCircuitOpen(e) == CircuitOpenError

\* line 47: raise e
Reraise(e) == e

\* a worker thread in call: its place, how the gate let it in, the
\* failure_count it saw at the gate, and the failure_count it read at line 51
CbLocal(pc, admitted, seen, count) ==
    [pc |-> pc, admitted |-> admitted, seen |-> seen, count |-> count]
\* calls begun, executions of line 51 since the breaker last recovered,
\* whether it recovered (lines 41-42), whether two calls ever overlapped
CbLog(begun, raised, recovered, overlapped) ==
    [calls |-> begun, raised |-> raised, recovered |-> recovered,
     overlapped |-> overlapped]

Out(kind, invoked, result, error, retry_after) ==
    [kind |-> kind, invoked |-> invoked, result |-> result, error |-> error,
     retry_after |-> retry_after]

CbInit ==
    /\ \E n \in FailureThresholds, t \in RecoveryTimeouts : cb = CircuitBreaker(n, t)
    /\ cb_time = 1
    /\ cb_out = Out("none", FALSE, None, None, 0)
    /\ cb_local = [t \in Threads |-> CbLocal("idle", "none", 0, 0)]
    /\ cb_log = CbLog(0, 0, FALSE, FALSE)

\* call, up to the invocation of the wrapped function
call_gate ==
    /\ cb_out.kind # "running"
    /\ IF cb.state = "OPEN"
       THEN IF CooldownOver(cb, cb_time)
            THEN /\ cb' = EnterHalfOpen(cb)
                 /\ cb_out' = Out("running", TRUE, None, None, 0)
            ELSE /\ cb_out' = Out("rejected", FALSE, None, CircuitOpenError,
                                  RetryAfter(cb, cb_time))
                 /\ UNCHANGED cb
       ELSE /\ cb_out' = Out("running", TRUE, None, None, 0)
            /\ UNCHANGED cb
    /\ UNCHANGED <<cb_time, cb_local, cb_log, storeVars, retryVars, cacheVars, restVars>>

\* call, the wrapped function returns result
call_return(result) ==
    /\ cb_out.kind = "running"
    /\ cb' = OnReturn(cb)
    /\ cb_out' = Out("returned", TRUE, result, None, 0)
    /\ UNCHANGED <<cb_time, cb_local, cb_log, storeVars, retryVars, cacheVars, restVars>>

\* call, the wrapped function raises e
call_raise(e) ==
    /\ cb_out.kind = "running"
    /\ cb' = _record_failure(cb, cb_time)
    /\ cb_out' = Out("raised", TRUE, None, Reraise(e), 0)
    /\ UNCHANGED <<cb_time, cb_local, cb_log, storeVars, retryVars, cacheVars, restVars>>

\* a second passes
CbTick ==
    /\ cb_time < MaxCbTime
    /\ cb_time' = cb_time + 1
    /\ UNCHANGED <<cb, cb_out, cb_local, cb_log, storeVars, retryVars, cacheVars, restVars>>

-----------------------------------------------------------------------------
(* One CircuitBreaker shared by the worker threads of the pool.  The class *)
(* takes no lock, so a thread may be preempted between any two reads or    *)
(* writes of the breaker's fields; each action below is one such read or   *)
(* write by thread t.                                                      *)

MaxCalls == 4            \* calls the worker threads begin

InCall(t) == cb_local[t].pc # "idle"
At(t, pc) == cb_local[t].pc = pc
Goto(t, pc) == cb_local' = [cb_local EXCEPT ![t].pc = pc]
Leave(t) == cb_local' = [cb_local EXCEPT ![t] = CbLocal("idle", "none", 0, 0)]

\* lines 28-29 and 32-36: the thread reads state and the clock; it is
\* rejected, goes on to line 30, or goes on to the wrapped function
call_check(t) ==
    /\ At(t, "idle")
    /\ cb_log.calls < MaxCalls
    /\ cb_log' = [cb_log EXCEPT !.calls = @ + 1,
                                !.overlapped = @ \/ \E u \in Threads \ {t} : InCall(u)]
    /\ IF cb.state = "OPEN"
       THEN IF CooldownOver(cb, cb_time)
            THEN cb_local' = [cb_local EXCEPT ![t] =
                                 CbLocal("half_open", "trial", cb.failure_count, 0)]
            ELSE UNCHANGED cb_local
       ELSE cb_local' = [cb_local EXCEPT ![t] =
                            CbLocal("func", IF cb.state = "HALF_OPEN" THEN "half_open"
                                            ELSE "closed", cb.failure_count, 0)]
    /\ UNCHANGED <<cb, cb_time, cb_out, storeVars, retryVars, cacheVars, restVars>>

\* line 30: self.state = 'HALF_OPEN'
call_half_open(t) ==
    /\ At(t, "half_open")
    /\ cb' = EnterHalfOpen(cb)
    /\ Goto(t, "func")
    /\ UNCHANGED <<cb_time, cb_out, cb_log, storeVars, retryVars, cacheVars, restVars>>

\* lines 39-40: the wrapped function returns and the thread reads state
call_func_returns(t) ==
    /\ At(t, "func")
    /\ IF cb.state = "HALF_OPEN" THEN Goto(t, "close") ELSE Leave(t)
    /\ UNCHANGED <<cb, cb_time, cb_out, cb_log, storeVars, retryVars, cacheVars, restVars>>

\* line 41: self.state = 'CLOSED'
call_close(t) ==
    /\ At(t, "close")
    /\ cb' = [cb EXCEPT !.state = "CLOSED"]
    /\ cb_log' = [cb_log EXCEPT !.recovered = TRUE]
    /\ Goto(t, "reset")
    /\ UNCHANGED <<cb_time, cb_out, storeVars, retryVars, cacheVars, restVars>>

\* line 42: self.failure_count = 0
call_reset(t) ==
    /\ At(t, "reset")
    /\ cb' = [cb EXCEPT !.failure_count = 0]
    /\ Leave(t)
    /\ UNCHANGED <<cb_time, cb_out, cb_log, storeVars, retryVars, cacheVars, restVars>>

\* lines 39 and 45-46: the wrapped function raises
call_func_raises(t) ==
    /\ At(t, "func")
    /\ Goto(t, "load")
    /\ UNCHANGED <<cb, cb_time, cb_out, cb_log, storeVars, retryVars, cacheVars, restVars>>

\* line 51, self.failure_count += 1: the read
_record_failure_load(t) ==
    /\ At(t, "load")
    /\ cb_local' = [cb_local EXCEPT ![t].pc = "store", ![t].count = cb.failure_count]
    /\ UNCHANGED <<cb, cb_time, cb_out, cb_log, storeVars, retryVars, cacheVars, restVars>>

\* line 51, self.failure_count += 1: the write
_record_failure_store(t) ==
    /\ At(t, "store")
    /\ cb' = [cb EXCEPT !.failure_count = cb_local[t].count + 1]
    /\ cb_log' = [cb_log EXCEPT !.raised = @ + 1]
    /\ Goto(t, "stamp")
    /\ UNCHANGED <<cb_time, cb_out, storeVars, retryVars, cacheVars, restVars>>

\* line 52: self.last_failure_time = time.time()
_record_failure_stamp(t) ==
    /\ At(t, "stamp")
    /\ cb' = [cb EXCEPT !.last_failure_time = cb_time]
    /\ Goto(t, "test")
    /\ UNCHANGED <<cb_time, cb_out, cb_log, storeVars, retryVars, cacheVars, restVars>>

\* line 54: if self.failure_count >= self.failure_threshold
_record_failure_test(t) ==
    /\ At(t, "test")
    /\ IF cb.failure_count >= cb.failure_threshold THEN Goto(t, "open") ELSE Leave(t)
    /\ UNCHANGED <<cb, cb_time, cb_out, cb_log, storeVars, retryVars, cacheVars, restVars>>

\* line 55: self.state = 'OPEN'
_record_failure_open(t) ==
    /\ At(t, "open")
    /\ cb' = [cb EXCEPT !.state = "OPEN"]
    /\ Leave(t)
    /\ UNCHANGED <<cb_time, cb_out, cb_log, storeVars, retryVars, cacheVars, restVars>>

-----------------------------------------------------------------------------
(* ImprovedPaperpileNotionSync: the cycle of run_once_improved and the     *)
(* pipeline of process_paper_improved.  Time is the store's clock, in      *)
(* hours; the cache sees the same clock in seconds.  A pipeline run is one *)
(* step of its worker thread: two runs of one batch work on different      *)
(* rows and keys.  The collaborators are their return values: none of      *)
(* download_file, analyze_paper, check_duplicate and create_paper_entry    *)
(* lets an exception out, so each call through a breaker is a call that   *)
(* returns, and the rate limiter only delays.                              *)

MaxCycles == 2           \* cycles the orchestrator runs
MaxRuns == 6             \* direct pipeline runs that write to the store

SecondsOf(hours) == hours * 3600

Paths == {"downloads/a.pdf"}
Metadata == {"{title}"}
PageIds == {"p1"}
SyncWorkerCounts == {1, 2}     \* a batch has at most two papers
SyncSteps == {HoursPerDay}    \* the cycles are watched a retry delay apart

\* what the collaborators return in one run of the pipeline
Collab(download, analysis, duplicate, create) ==
    [download |-> download, analysis |-> analysis, duplicate |-> duplicate, create |-> create]
\* a collaborator that is not called (the download failed, a duplicate was
\* found) has no answer
Collabs ==
    {o \in {Collab(d, a, dup, c) : d \in Paths \cup {None}, a \in Metadata \cup {None},
                                   dup \in BOOLEAN, c \in PageIds \cup {None}} :
        /\ o.download = None => (o.analysis = None /\ ~o.duplicate /\ o.create = None)
        /\ o.duplicate => o.create = None}

\* a file of the monitored folder
DriveFile(id, name, created) == [id |-> id, name |-> name, created |-> created]

\* monitor.py line 62: created_time > self.last_check
IsNew(file, since) == file.created > since

\* orderBy createdTime desc: every order the listing may come in
Listings(files) ==
    {s \in [1..Cardinality(files) -> files] :
        /\ \A i, j \in DOMAIN s : i # j => s[i] # s[j]
        /\ \A i, j \in DOMAIN s : i < j => s[i].created >= s[j].created}

\* get_new_pdfs: the lists it may return (list_ok: files().list() answered)
get_new_pdfs(list_ok) ==
    IF list_ok
    THEN {[i \in DOMAIN s |-> DrivePaper(s[i].id, s[i].name)] :
             s \in Listings({f \in drive_files : IsNew(f, last_check)})}
    ELSE {<<>>}

\* f"analysis_{file_id}"
CacheKey(file_id) == "analysis_" \o file_id

\* CacheManager.get on a cache value: what it returns and what it leaves
get_in(c, key, now, ttl) ==
    IF key \in DOMAIN c /\ Fresh(c[key], now, ttl) THEN c[key].value ELSE None
after_get(c, key, now, ttl) ==
    IF key \in DOMAIN c /\ ~Fresh(c[key], now, ttl) THEN Del(c, key) ELSE c

\* line 145: paper_metadata['drive_file_id'] = file_id (the cached dict is
\* the same object)
WithDriveFileId(metadata, file_id) == metadata \o "+drive_file_id:" \o file_id

\* Faulty variant: no handler, the exception leaves the pipeline.
OnExceptionUncaught(s, file_id, file_name, text, now) ==
    [outcome |-> Raises(text), store |-> s]

\* lines 174-177
OnException(s, file_id, file_name, text, now) ==
    [outcome |-> Returns("False"),
     store |-> mark_as_failed_op(s, file_id, file_name, text, now)]

\* Faulty variant: a duplicate is recorded as a failure.
OnDuplicateFailed(s, file_id, file_name, now) ==
    [outcome |-> Returns("False"),
     store |-> mark_as_failed_op(s, file_id, file_name, "duplicate", now)]

\* lines 148-151
OnDuplicate(s, file_id, file_name, now) ==
    [outcome |-> Returns("True"),
     store |-> mark_as_processed_op(s, file_id, file_name, None, "{duplicate}", now)]

\* retry.py line 19: failure_threshold: int = 5, recovery_timeout: int = 60
DefaultFailureThreshold == 5
DefaultRecoveryTimeout == 60

\* main_refactored.py lines 41-43: three breakers with the default arguments
Circuits ==
    [drive |-> CircuitBreaker(DefaultFailureThreshold, DefaultRecoveryTimeout),
     gemini |-> CircuitBreaker(DefaultFailureThreshold, DefaultRecoveryTimeout),
     notion |-> CircuitBreaker(DefaultFailureThreshold, DefaultRecoveryTimeout)]

\* retry.py lines 28-36: the breaker raises instead of calling
Rejected(b, now_s) == b.state = "OPEN" /\ ~CooldownOver(b, now_s)
\* retry.py lines 33-36: the text of the rejection
CircuitOpenText(name, b, now_s) ==
    "Circuit breaker is OPEN for " \o name \o ". Retry after "
        \o ToString(RetryAfter(b, now_s)) \o "s"
\* retry.py lines 28-44: the breaker after a call it let through and whose
\* wrapped function returned (a collaborator returns None where it failed)
AfterCall(b, now_s) ==
    OnReturn(IF b.state = "OPEN" /\ CooldownOver(b, now_s) THEN EnterHalfOpen(b) ELSE b)

\* Faulty variant: the answer of check_duplicate is ignored.
IsDuplicateIgnored(o) == FALSE

\* line 148: if self.notion_db.check_duplicate(...)
IsDuplicate(o) == o.duplicate

\* Faulty variant: whatever analyze_paper returned is cached.
CacheableAlways(paper_metadata) == TRUE

\* line 138: if paper_metadata
Cacheable(paper_metadata) == paper_metadata # None

\* a run of the pipeline: what it returned or raised, the store, the cache
\* and the breakers it leaves, the collaborator calls it made, and the
\* paper_metadata it went on with after line 145
Run(outcome, s, c, b, made, paper_metadata) ==
    [outcome |-> outcome, store |-> s, cache |-> c, circuits |-> b, calls |-> made,
     metadata |-> paper_metadata]

\* process_paper_improved(file_info) with the collaborators answering o, on
\* store s, cache c and breakers b, at local time now and time.time() now_s
process_paper_improved(file_info, o, s, c, b, now, now_s, ttl) ==
    IF file_info.keys # "drive"
    THEN Run(Raises("'id'"), s, c, b, <<>>, None)         \* line 104: KeyError('id')
    ELSE
    LET file_id == file_info.id
        file_name == file_info.name
        cache_key == CacheKey(file_id)
        cached_analysis == get_in(c, cache_key, now_s, ttl)
        c1 == after_get(c, cache_key, now_s, ttl)
        failed(text, c2, b2, made, paper_metadata) ==
            LET h == OnException(s, file_id, file_name, text, now)
            IN  Run(h.outcome, h.store, c2, b2, made, paper_metadata)
    IN
    IF is_processed_in(s.files, file_id)
    THEN Run(Returns("True"), s, c, b, <<>>, None)        \* lines 108-110
    ELSE IF Rejected(b.drive, now_s)
    THEN failed(CircuitOpenText("download_file", b.drive, now_s), c1, b, <<>>, None)
    ELSE
    LET b1 == [b EXCEPT !.drive = AfterCall(b.drive, now_s)] IN
    IF o.download = None
    THEN failed("Failed to download " \o file_name, c1, b1, <<"download_file">>, None)
    ELSE
    LET analysed == cached_analysis = None IN
    IF analysed /\ Rejected(b1.gemini, now_s)
    THEN failed(CircuitOpenText("analyze_paper", b1.gemini, now_s), c1, b1,
                <<"download_file">>, None)
    ELSE
    LET b2 == IF analysed THEN [b1 EXCEPT !.gemini = AfterCall(b1.gemini, now_s)] ELSE b1
        paper_metadata ==
            IF analysed
            THEN (IF o.analysis = None THEN None ELSE WithDriveFileId(o.analysis, file_id))
            ELSE cached_analysis
        calls2 == IF analysed THEN <<"download_file", "analyze_paper">>
                  ELSE <<"download_file">>
        c2 == IF analysed /\ Cacheable(o.analysis)
              THEN Put(c1, cache_key, Entry(paper_metadata, now_s))
              ELSE c1
    IN
    IF paper_metadata = None
    THEN failed("Failed to analyze " \o file_name, c2, b2, calls2, None)
    ELSE IF IsDuplicate(o)
    THEN LET d == OnDuplicate(s, file_id, file_name, now)
         IN  Run(d.outcome, d.store, c2, b2, Append(calls2, "check_duplicate"),
                 paper_metadata)
    ELSE IF Rejected(b2.notion, now_s)
    THEN failed(CircuitOpenText("create_paper_entry", b2.notion, now_s), c2, b2,
                Append(calls2, "check_duplicate"), paper_metadata)
    ELSE
    LET b3 == [b2 EXCEPT !.notion = AfterCall(b2.notion, now_s)] IN
    IF o.create = None
    THEN failed("Failed to create Notion entry for " \o file_name, c2, b3,
                calls2 \o <<"check_duplicate", "create_paper_entry">>, paper_metadata)
    ELSE Run(Returns("True"),
             mark_as_processed_op(s, file_id, file_name, o.create, paper_metadata, now),
             c2, b3, calls2 \o <<"check_duplicate", "create_paper_entry">>,
             paper_metadata)

\* the record of a direct call of process_paper_improved
LastRun(ran, file_id, o, outcome, made, paper_metadata) ==
    [ran |-> ran, file_id |-> file_id, answers |-> o, outcome |-> outcome,
     calls |-> made, metadata |-> paper_metadata]
NoRun == LastRun(FALSE, None, Collab(None, None, FALSE, None), Returns(None), <<>>, None)

\* Faulty variant: shutdown(wait=False).
DrainedNoWait == TRUE

\* async_processor.py line 85: shutdown(wait=True) returns when every task
\* that was submitted has run
Drained == InState("pending") \cup InState("running") = {}

Summary(successful, failed) == [successful |-> successful, failed |-> failed]

SyncInit ==
    /\ clock = 0
    /\ utc_offset \in UtcOffsets
    /\ processed_files = {}
    /\ processing_history = {}
    /\ history_seq = 0
    /\ ret = 0
    /\ store_exc = NoStoreExc
    /\ cache = EmptyCache
    /\ ttl_seconds = SecondsOf(1)
    /\ cache_time = SecondsOf(clock)
    /\ cache_ret = CacheRet(None, None, FALSE)
    /\ set_log = [k \in CacheKeys |-> NoSet]
    /\ cache_local = [t \in Threads |-> CacheLocal("idle", None, Entry(None, 0), {})]
    /\ cache_log = CacheLog(0, {})
    /\ papers = <<>>
    /\ max_workers \in SyncWorkerCounts
    /\ futures = <<>>
    /\ results = <<>>
    /\ completed = 0
    /\ progress = <<>>
    /\ batch_pc = "idle"
    /\ process = "running"
    /\ drive_files = {}
    /\ last_check = clock - HoursPerDay                   \* monitor.py line 22
    /\ attempted = <<>>
    /\ summary = Summary(0, 0)
    /\ cycles = 0
    /\ circuits = Circuits
    /\ last_run = NoRun

\* a PDF appears in the monitored folder.  A batch lasts less than a step of
\* the clock, so the folder and the clock change between batches.
upload(id, name) ==
    /\ process = "running"
    /\ batch_pc = "idle"
    /\ \A f \in drive_files : f.id # id
    /\ last_check < clock
    /\ drive_files' = drive_files \cup {DriveFile(id, name, clock)}
    /\ UNCHANGED <<last_check, attempted, summary, cycles, circuits, last_run,
                   storeVars, cbVars, retryVars, cacheVars, limiterVars, batchVars>>

\* run_once_improved, lines 181-209: the candidates are gathered and the
\* batch is entered (or the cycle ends, lines 195-197)
discover(list_ok) ==
    /\ process = "running"
    /\ batch_pc = "idle"
    /\ cycles < MaxCycles
    /\ \E new_files \in get_new_pdfs(list_ok), failed \in get_failed_files(HoursPerDay) :
          LET failed_files == [i \in DOMAIN failed |->
                                  RowPaper(failed[i].file_id, failed[i].file_name)]
              all_files == new_files \o failed_files
          IN  /\ EnterBatch(all_files)
              /\ attempted' = [i \in DOMAIN all_files |-> <<>>]
    /\ last_check' = IF list_ok THEN clock ELSE last_check
    /\ cycles' = cycles + 1
    /\ UNCHANGED <<drive_files, summary, circuits, last_run, max_workers, process,
                   storeVars, cbVars, retryVars, cacheVars, limiterVars>>

\* the task of paper i runs the pipeline, the collaborators answering o
pipeline_finish(i, o) ==
    /\ process # "exited"
    /\ i \in InState("running")
    /\ LET run == process_paper_improved(papers[i], o, CurStore, cache, circuits,
                                         LocalNow(clock, utc_offset), cache_time, ttl_seconds)
       IN  /\ SetStore(run.store)
           /\ cache' = run.cache
           /\ circuits' = run.circuits
           /\ attempted' = [attempted EXCEPT ![i] = run.calls]
           /\ futures' = [futures EXCEPT ![i] = _process_single(papers[i], run.outcome)]
    /\ UNCHANGED <<clock, utc_offset, ret, store_exc, ttl_seconds, cache_local, cache_log, cache_time, cache_ret, set_log,
                   papers, max_workers, results, completed, progress, batch_pc, process,
                   drive_files, last_check, summary, cycles, last_run,
                   cbVars, retryVars, limiterVars>>

\* process_paper_improved(file_info) called on its own, on the main thread,
\* the collaborators answering o
run_pipeline(file_info, o) ==
    /\ process = "running"
    /\ batch_pc = "idle"
    /\ history_seq < MaxRuns
    /\ LET run == process_paper_improved(file_info, o, CurStore, cache, circuits,
                                         LocalNow(clock, utc_offset), cache_time, ttl_seconds)
       IN  /\ SetStore(run.store)
           /\ cache' = run.cache
           /\ circuits' = run.circuits
           /\ last_run' = LastRun(TRUE, file_info.id, o, run.outcome, run.calls,
                                  run.metadata)
    /\ UNCHANGED <<clock, utc_offset, ret, store_exc, ttl_seconds, cache_local, cache_log, cache_time, cache_ret, set_log,
                   drive_files, last_check, attempted, summary, cycles,
                   cbVars, retryVars, limiterVars, batchVars>>

\* lines 212-223: the summary and the two sweeps; the batch and its results
\* are locals of the cycle, gone when it returns
summarise ==
    /\ process = "running"
    /\ batch_pc = "returned"
    /\ LET successful == Cardinality({i \in DOMAIN results : results[i].success})
       IN  summary' = Summary(successful, Len(results) - successful)
    /\ cache' = [k \in {x \in DOMAIN cache : ~Stale(cache[x], cache_time, ttl_seconds)}
                   |-> cache[k]]
    /\ LET old == OldHistory(processing_history, 30, clock)
       IN  /\ processing_history' = processing_history \ old
           /\ ret' = Cardinality(old)
           /\ store_exc' = NoStoreExc
    /\ EnterBatch(<<>>)
    /\ attempted' = <<>>
    /\ UNCHANGED <<clock, utc_offset, processed_files, history_seq,
                   ttl_seconds, cache_local, cache_log, cache_time, cache_ret, set_log,
                   max_workers, process, drive_files, last_check, cycles,
                   circuits, last_run, cbVars, retryVars, limiterVars>>

\* SIGINT or SIGTERM, lines 94-97: the handler runs on the main thread and
\* calls shutdown()
signal_handler ==
    /\ process = "running"
    /\ process' = "shutting_down"
    /\ UNCHANGED <<papers, max_workers, futures, results, completed, progress, batch_pc,
                   storeVars, cbVars, retryVars, cacheVars, limiterVars, syncVars>>

\* shutdown() returns and sys.exit(0) ends the process, line 97
shutdown_returns ==
    /\ process = "shutting_down"
    /\ Drained
    /\ process' = "exited"
    /\ UNCHANGED <<papers, max_workers, futures, results, completed, progress, batch_pc,
                   storeVars, cbVars, retryVars, cacheVars, limiterVars, syncVars>>

\* main, lines 299-323: the program is started again, after it exited or
\* after the cycle of a --once run returned: a new DriveMonitor, cache and
\* pool over the database file of the earlier run
restart ==
    /\ process = "exited" \/ (batch_pc = "idle" /\ cycles > 0)
    /\ cycles < MaxCycles
    /\ process' = "running"
    /\ last_check' = clock - HoursPerDay                  \* monitor.py line 22
    /\ cache' = EmptyCache
    /\ EnterBatch(<<>>)
    /\ attempted' = <<>>
    /\ summary' = Summary(0, 0)
    /\ circuits' = Circuits                                \* lines 41-43
    /\ UNCHANGED <<ttl_seconds, cache_local, cache_log, cache_time, cache_ret, set_log, max_workers,
                   drive_files, cycles, last_run, storeVars, cbVars, retryVars, limiterVars>>

\* time passes, for the store and for the cache
SyncTick(step) ==
    /\ process = "running"
    /\ batch_pc = "idle"
    /\ clock + step < (MaxDays + 1) * HoursPerDay
    /\ ((clock + step) % HoursPerDay) \in HourMarks
    /\ clock' = clock + step
    /\ cache_time' = SecondsOf(clock + step)
    /\ UNCHANGED <<utc_offset, processed_files, processing_history, history_seq, ret, store_exc,
                   cache, ttl_seconds, cache_local, cache_log, cache_ret, set_log,
                   cbVars, retryVars, limiterVars, batchVars, syncVars>>

SyncIdle ==
    /\ drive_files = {}
    /\ last_check = 0
    /\ attempted = <<>>
    /\ summary = Summary(0, 0)
    /\ cycles = 0
    /\ circuits = Circuits
    /\ last_run = NoRun

RestIdle == LimiterIdle /\ BatchIdle /\ SyncIdle

-----------------------------------------------------------------------------
(* The components at rest *)

StoreIdle ==
    /\ clock = 0
    /\ utc_offset = 0
    /\ processed_files = {}
    /\ processing_history = {}
    /\ history_seq = 0
    /\ ret = 0
    /\ store_exc = NoStoreExc

CbIdle ==
    /\ cb = CircuitBreaker(1, 1)
    /\ cb_time = 1
    /\ cb_out = Out("none", FALSE, None, None, 0)
    /\ cb_local = [t \in Threads |-> CbLocal("idle", "none", 0, 0)]
    /\ cb_log = CbLog(0, 0, FALSE, FALSE)

BreakerInit == CbInit /\ StoreIdle /\ RetryIdle /\ CacheIdle /\ RestIdle

BreakerNext ==
    \/ call_gate
    \/ \E v \in ReturnValues : call_return(v)
    \/ \E e \in Exceptions : call_raise(e)
    \/ CbTick

SpecBreaker == BreakerInit /\ [][BreakerNext]_vars

-----------------------------------------------------------------------------
(* The breaker shared by the worker threads *)

SharedBreakerNext ==
    \/ \E t \in Threads : call_check(t)
    \/ \E t \in Threads : call_half_open(t)
    \/ \E t \in Threads : call_func_returns(t)
    \/ \E t \in Threads : call_close(t)
    \/ \E t \in Threads : call_reset(t)
    \/ \E t \in Threads : call_func_raises(t)
    \/ \E t \in Threads : _record_failure_load(t)
    \/ \E t \in Threads : _record_failure_store(t)
    \/ \E t \in Threads : _record_failure_stamp(t)
    \/ \E t \in Threads : _record_failure_test(t)
    \/ \E t \in Threads : _record_failure_open(t)
    \/ CbTick

SpecSharedBreaker == BreakerInit /\ [][SharedBreakerNext]_vars

-----
(* The tracking store on its own *)

StoreInit ==
    /\ clock = 0
    /\ utc_offset \in UtcOffsets
    /\ processed_files = {}
    /\ processing_history = {}
    /\ history_seq = 0
    /\ ret = 0
    /\ store_exc = NoStoreExc
    /\ cb = CircuitBreaker(1, 1)
    /\ cb_time = 1
    /\ cb_out = Out("none", FALSE, None, None, 0)
    /\ cb_local = [t \in Threads |-> CbLocal("idle", "none", 0, 0)]
    /\ cb_log = CbLog(0, 0, FALSE, FALSE)
    /\ RetryIdle
    /\ CacheIdle
    /\ RestIdle

StoreNext ==
    \/ \E f \in FileIds, n \in FileNames, a \in SuccessArgs :
           mark_as_processed(f, n, a[1], a[2])
    \/ \E f \in FileIds, n \in FileNames, e \in ErrorMessages : mark_as_failed(f, n, e)
    \/ \E f \in FileIds, n \in FileNames, a \in SuccessArgs, st \in WriteStatements :
           mark_as_processed_raises(f, n, a[1], a[2], st)
    \/ \E f \in FileIds, n \in FileNames, e \in ErrorMessages, st \in WriteStatements :
           mark_as_failed_raises(f, n, e, st)
    \/ \E d \in KeepDays : cleanup_old_records(d)
    \/ \E t \in TextFiles \cup {NoFile} : migrate_from_text_file(t)
    \/ \E step \in TickSteps : Tick(step)

SpecStore == StoreInit /\ [][StoreNext]_vars

-----------------------------------------------------------------------------
(* The retry wrapper on its own *)

RetrySpecInit == RetryInit /\ StoreIdle /\ CbIdle /\ CacheIdle /\ RestIdle

RetryNext ==
    \/ wrapper_enter
    \/ func_returns
    \/ func_raises

SpecRetry == RetrySpecInit /\ [][RetryNext]_vars

-----------------------------------------------------------------------------
(* The cache on its own *)

CacheSpecInit == CacheInit /\ StoreIdle /\ CbIdle /\ RetryIdle /\ RestIdle

CacheNext ==
    \/ \E k \in CacheKeys : cache_get(k)
    \/ \E k \in CacheKeys, v \in CacheValues : cache_set(k, v)
    \/ cache_clear
    \/ cleanup_expired
    \/ CacheTick

SpecCache == CacheSpecInit /\ [][CacheNext]_vars

-----------------------------------------------------------------------------
(* The cache shared by the worker threads, on one key *)

SharedCacheNext ==
    \/ \E t \in Threads : get_contains(t, "k1")
    \/ \E t \in Threads : get_entry(t)
    \/ \E t \in Threads : get_fresh(t)
    \/ \E t \in Threads : get_del(t)
    \/ \E t \in Threads, v \in CacheValues : set_entry(t, "k1", v)
    \/ \E t \in Threads : cleanup_expired_keys(t)
    \/ \E t \in Threads : cleanup_expired_del(t)
    \/ CacheTick

SpecSharedCache == CacheSpecInit /\ [][SharedCacheNext]_vars

-----------------------------------------------------------------------------
(* The rate limiter on its own *)

LimiterSpecInit ==
    LimiterInit /\ StoreIdle /\ CbIdle /\ RetryIdle /\ CacheIdle /\ BatchIdle /\ SyncIdle

LimiterNext ==
    \/ \E t \in Threads : wait_read(t)
    \/ \E t \in Threads : wait_wake(t)
    \/ \E t \in Threads : wait_stamp(t)
    \/ RlTick

SpecLimiter == LimiterSpecInit /\ [][LimiterNext]_vars

-----------------------------------------------------------------------------
(* The batch processor on its own, with any per-item function *)

BatchSpecInit ==
    BatchInit /\ StoreIdle /\ CbIdle /\ RetryIdle /\ CacheIdle /\ LimiterIdle /\ SyncIdle

BatchNext ==
    \/ submit
    \/ \E i \in DOMAIN futures : worker_start(i)
    \/ \E i \in DOMAIN futures, outcome \in FuncOutcomes : worker_finish(i, outcome)
    \/ \E i \in DOMAIN futures : collect(i)
    \/ batch_return

SpecBatch == BatchSpecInit /\ [][BatchNext]_vars

-----------------------------------------------------------------------------
(* The orchestrator: cycles of discovery, batch and summary *)

SyncSpecInit == SyncInit /\ CbIdle /\ RetryIdle /\ LimiterIdle

SyncNext ==
    \/ \E id \in FileIds, name \in FileNames : upload(id, name)
    \/ \E list_ok \in BOOLEAN : discover(list_ok)
    \/ submit
    \/ \E i \in DOMAIN futures : worker_start(i)
    \/ \E i \in DOMAIN futures, o \in Collabs : pipeline_finish(i, o)
    \/ \E i \in DOMAIN futures : collect(i)
    \/ batch_return
    \/ summarise
    \/ signal_handler
    \/ shutdown_returns
    \/ \E step \in SyncSteps : SyncTick(step)

SpecSync == SyncSpecInit /\ [][SyncNext]_vars

-----------------------------------------------------------------------------
(* The orchestrator over several runs of the program, on one file *)

RunsNext ==
    \/ \E name \in FileNames : upload("f1", name)
    \/ \E list_ok \in BOOLEAN : discover(list_ok)
    \/ submit
    \/ \E i \in DOMAIN futures : worker_start(i)
    \/ \E i \in DOMAIN futures, o \in Collabs : pipeline_finish(i, o)
    \/ \E i \in DOMAIN futures : collect(i)
    \/ batch_return
    \/ summarise
    \/ signal_handler
    \/ shutdown_returns
    \/ restart
    \/ \E step \in SyncSteps : SyncTick(step)

SpecRuns == SyncSpecInit /\ [][RunsNext]_vars

-----------------------------------------------------------------------------
(* The pipeline on its own: process_paper_improved called again and again  *)
(* for one Drive file, with any answers of the collaborators               *)

PipelineInit == SyncSpecInit /\ utc_offset = 0 /\ max_workers = 1

PipelineNext ==
    \/ \E name \in FileNames, o \in Collabs : run_pipeline(DrivePaper("f1", name), o)
    \/ \E step \in SyncSteps : SyncTick(step)

SpecPipeline == PipelineInit /\ [][PipelineNext]_vars

-----------------------------------------------------------------------------
(* Properties of the tracking store (checked under SpecStore) *)

RowsOf(i) == {r \in processed_files : r.file_id = i}
HistoryOf(i) == {e \in processing_history : e.file_id = i}
\* the UTC instant at which a row or history entry was written
WrittenAt(stamp) == stamp - utc_offset

MarkProcessedStep(i) ==
    \E n \in FileNames, a \in SuccessArgs : mark_as_processed(i, n, a[1], a[2])
MarkFailedStep(i) ==
    \E n \in FileNames, e \in ErrorMessages : mark_as_failed(i, n, e)

\* C1: once mark_as_processed(i) has returned, is_processed(i) is true, and it
\* stays true across every later store operation that is not mark_as_failed(i).
C1_CompletedIsMonotonic ==
    [][\A i \in FileIds :
          /\ MarkProcessedStep(i) => is_processed(i)'
          /\ (is_processed(i) /\ ~MarkFailedStep(i)) => is_processed(i)']_vars

\* i was completed, and later another id was written as failed
C1_Witness ==
    \E r1 \in RowsOf("f1"), r2 \in RowsOf("f2") :
        /\ r1.status = "completed" /\ r2.status = "failed"
        /\ r2.processed_at > r1.processed_at
        /\ is_processed("f1")

\* C2: is_processed(i) holds exactly when a row for i with status completed
\* exists; mark_as_failed(i, _, e) overwrites the row whatever its status was:
\* right after it is_processed(i) is false and the row is failed with message e.
C2_FailureOverwrites ==
    /\ [](\A i \in FileIds :
             is_processed(i) <=> (\E r \in RowsOf(i) : r.status = "completed"))
    /\ [][\A i \in FileIds, n \in FileNames, e \in ErrorMessages :
             mark_as_failed(i, n, e) =>
                 /\ ~is_processed(i)'
                 /\ RowsOf(i)' # {}
                 /\ \A r \in RowsOf(i)' : r.status = "failed" /\ r.error_message = e]_vars

\* a failed row for an id whose history shows it was completed before
C2_Witness ==
    /\ \E r \in RowsOf("f1") : r.status = "failed" /\ r.error_message = "e1"
    /\ \E e \in HistoryOf("f1") : e.action = "processed"
    /\ ~is_processed("f1")

\* the history entries of the most recent write for i that is still recorded
LatestHistory(i) == {e \in HistoryOf(i) : \A o \in HistoryOf(i) : o.id <= e.id}
\* the history entry matching row r
Describes(e, r) ==
    /\ e.timestamp = r.processed_at
    /\ r.status = "completed" =>
           /\ e.action = "processed"
           /\ e.details = json_dumps("{notion_page_id: " \o
                  (IF r.notion_page_id = NULL THEN None ELSE r.notion_page_id) \o "}")
    /\ r.status = "failed" =>
           /\ e.action = "failed"
           /\ e.details = json_dumps("{error: " \o r.error_message \o "}")
    /\ r.status \in {"completed", "failed"}

\* C3: at most one processed_files row per file_id, and that row is the one
\* the most recent write for the id made.
C3_OneRowPerId ==
    \A i \in FileIds :
        /\ Cardinality(RowsOf(i)) <= 1
        /\ HistoryOf(i) # {} => RowsOf(i) # {}
        /\ \A r \in RowsOf(i), e \in LatestHistory(i) : Describes(e, r)

\* an id written twice, with different outcomes, has one row
C3_Witness ==
    /\ Cardinality(RowsOf("f1")) = 1
    /\ \E e1, e2 \in HistoryOf("f1") : e1.action = "processed" /\ e2.action = "failed"

\* C4: get_failed_files(h) returns exactly the failed rows written at least h
\* hours ago, oldest first.
C4_RetryWindow ==
    \A h \in RetryHours : \A s \in get_failed_files(h) :
        /\ {s[k].file_id : k \in DOMAIN s} =
               {r.file_id : r \in {q \in processed_files :
                    q.status = "failed" /\ clock - WrittenAt(q.processed_at) >= h}}
        /\ \A j, k \in DOMAIN s : j < k =>
               /\ s[j].processed_at <= s[k].processed_at
               /\ s[j].file_id # s[k].file_id

\* on the history table: exactly one entry is added, for i with the action
Appended(i, action) ==
    /\ processing_history \subseteq processing_history'
    /\ \E e \in processing_history' :
           /\ processing_history' \ processing_history = {e}
           /\ e.file_id = i /\ e.action = action

\* C5: mark_as_processed appends exactly one history entry tagged processed,
\* mark_as_failed exactly one tagged failed, for the id written; no history
\* entry that existed is changed or removed by either.
C5_HistoryAppendOnly ==
    [][\A i \in FileIds :
          /\ MarkProcessedStep(i) => Appended(i, "processed")
          /\ MarkFailedStep(i) => Appended(i, "failed")]_vars

\* the row of an id was replaced while both its history entries are kept
C5_Witness ==
    /\ Cardinality(RowsOf("f1")) = 1
    /\ Cardinality(HistoryOf("f1")) = 2
    /\ \E e1, e2 \in HistoryOf("f1") :
           e1.action = "processed" /\ e2.action = "failed" /\ e1.id < e2.id

\* C6: cleanup_old_records(d) deletes exactly the history entries written more
\* than d days ago, returns how many it deleted, and leaves processed_files
\* and so the answers of the queries as they were.
C6_PurgeExactlyOld ==
    [][\A d \in KeepDays :
          cleanup_old_records(d) =>
              /\ processing_history' =
                     {e \in processing_history :
                         ~(clock - WrittenAt(e.timestamp) > d * HoursPerDay)}
              /\ ret' = Cardinality(processing_history \ processing_history')
              /\ processed_files' = processed_files
              /\ \A i \in FileIds : is_processed(i)' = is_processed(i)
              /\ get_processing_stats' = get_processing_stats
              /\ \A h \in RetryHours : get_failed_files(h)' = get_failed_files(h)]_vars

\* rows without their processed_at stamp
StripTime(files) == {[r EXCEPT !.processed_at = 0] : r \in files}
\* the ids a text file names
NamedIds(text_file) == {text_file[k].text : k \in DOMAIN text_file} \ {""}
MigratedRow(i, r) ==
    /\ r.file_id = i /\ r.file_name = "Migrated file " \o i /\ r.status = "completed"
    /\ r.notion_page_id = NULL /\ r.metadata = json_dumps("{migrated}")
\* the store is as an import of text_file leaves it
AlreadyImported(text_file) ==
    \A i \in NamedIds(text_file) : RowsOf(i) # {} /\ \A r \in RowsOf(i) : MigratedRow(i, r)
\* the local time of a second import: at once, or a day later
LaterStamps == {LocalNow(clock, utc_offset) + d : d \in {0, HoursPerDay}}
\* a step that imports text_file (what it returns is compared first)
NamedCount == [t \in TextFiles |-> migrated_count(t)]
MigrateStep(text_file) ==
    /\ ret' = NamedCount[text_file]
    /\ history_seq' = history_seq + ret'
    /\ migrate_from_text_file(text_file)

\* C7 as stated: a second import of the same list leaves the very same
\* processed_files rows.
C7_SecondImportSameRows ==
    [][\A t \in TextFiles :
          (AlreadyImported(t) /\ MigrateStep(t)) =>
              processed_files' = processed_files]_vars

\* C7, amended: after an import every id the list names is completed, and
\* importing the same list again, at once or later, leaves the same rows up to
\* their processed_at stamps and the same completed count.
C7_ImportIdempotent ==
    [][\A t \in TextFiles :
          MigrateStep(t) =>
              /\ \A i \in NamedIds(t) : is_processed(i)'
              /\ AlreadyImported(t)'
              /\ AlreadyImported(t) =>
                     /\ StripTime(processed_files') = StripTime(processed_files)
                     /\ StatusCount(processed_files', "completed") =
                            StatusCount(processed_files, "completed")
              /\ \A later \in LaterStamps :
                     LET again == migrate_lines(CurStore', t, later) IN
                     /\ StripTime(again.files) = StripTime(processed_files')
                     /\ StatusCount(again.files, "completed") =
                            StatusCount(processed_files', "completed")]_vars

\* an id imported after it had been written before, at another time
C7_Witness ==
    /\ ret = 1
    /\ \E r \in RowsOf("f1") : MigratedRow("f1", r)
    /\ \E e1, e2 \in HistoryOf("f1") :
           /\ e1.timestamp < e2.timestamp
           /\ e1.details = json_dumps("{notion_page_id: None}")
           /\ e2.details = json_dumps("{notion_page_id: None}")

\* C8: a failed row has an error_message, no notion_page_id and no metadata;
\* a completed row has no error_message.
C8_FieldConsistency ==
    \A r \in processed_files :
        /\ r.status = "failed" =>
               r.error_message # NULL /\ r.notion_page_id = NULL /\ r.metadata = NULL
        /\ r.status = "completed" => r.error_message = NULL

\* a failed row that replaced a completed one which had a page id
C8_Witness ==
    /\ \E r \in RowsOf("f1") : r.status = "failed"
    /\ \E e \in HistoryOf("f1") :
           e.action = "processed" /\ e.details = json_dumps("{notion_page_id: p1}")

-----------------------------------------------------------------------------
(* Properties of the circuit breaker (checked under SpecBreaker) *)

\* C9: from a fresh closed breaker, every exception of the wrapped call adds
\* one to failure_count and stamps last_failure_time; the breaker is closed
\* while failure_count < failure_threshold and open as soon as the count
\* reaches the threshold.
C9_OpensAtThreshold ==
    /\ [](cb.state = "CLOSED" => cb.failure_count < cb.failure_threshold)
    /\ [][\A e \in Exceptions :
             call_raise(e) =>
                 /\ cb'.failure_count = cb.failure_count + 1
                 /\ cb'.last_failure_time = cb_time
                 /\ cb'.failure_count < cb.failure_threshold => cb'.state = "CLOSED"
                 /\ cb'.failure_count >= cb.failure_threshold => cb'.state = "OPEN"]_vars

\* the third exception in a row has just opened a breaker of threshold 3
C9_Witness ==
    /\ cb.failure_threshold = 3 /\ cb.failure_count = 3
    /\ cb.state = "OPEN" /\ cb_out.kind = "raised"
    /\ cb.last_failure_time = cb_time

C11_TrialAfterCooldown ==
    [][(/\ cb.state = "OPEN"
        /\ cb_time - cb.last_failure_time > cb.recovery_timeout
        /\ call_gate) =>
           /\ cb'.state = "HALF_OPEN"
           /\ cb_out'.kind = "running" /\ cb_out'.invoked
           /\ cb_out'.error = None
           /\ cb'.failure_count = cb.failure_count
           /\ cb'.last_failure_time = cb.last_failure_time]_vars

\* the trial call of a breaker of threshold 3 is running, the cooldown of 2
\* seconds being over by a second
C11_Witness ==
    /\ cb.state = "HALF_OPEN" /\ cb_out.kind = "running"
    /\ cb.failure_threshold = 3 /\ cb.recovery_timeout = 2
    /\ cb_time - cb.last_failure_time = 3

\* C12: when the trial call made in half_open returns normally, the breaker
\* is closed with failure_count = 0 as the call returns, and the caller gets
\* the wrapped function's return value.
C12_TrialSuccessCloses ==
    [][\A v \in ReturnValues :
           (cb.state = "HALF_OPEN" /\ call_return(v)) =>
               /\ cb'.state = "CLOSED"
               /\ cb'.failure_count = 0
               /\ cb_out'.kind = "returned" /\ cb_out'.result = v
               /\ cb_out'.error = None]_vars

\* a breaker that had opened is closed again, count 0, by a call returning v2
C12_Witness ==
    /\ cb.state = "CLOSED" /\ cb.failure_count = 0
    /\ cb.last_failure_time > 0
    /\ cb_out.kind = "returned" /\ cb_out.result = "v2"

\* C13: in half_open the failure count is still at or above the threshold
\* (entering half_open does not reset it), so when the trial call raises, the
\* breaker is open again after that one failure, with last_failure_time
\* restamped to the time of the failure; the next trial is let through only
\* once more than recovery_timeout has passed since that stamp.
C13_TrialFailureReopens ==
    /\ [](cb.state = "HALF_OPEN" => cb.failure_count >= cb.failure_threshold)
    /\ [][\A e \in Exceptions :
             (cb.state = "HALF_OPEN" /\ call_raise(e)) =>
                 /\ cb'.state = "OPEN"
                 /\ cb'.failure_count = cb.failure_count + 1
                 /\ cb'.last_failure_time = cb_time]_vars
    /\ [][(cb.state = "OPEN" /\ call_gate /\ cb_out'.kind = "running") =>
              cb_time - cb.last_failure_time > cb.recovery_timeout]_vars

\* the trial call of a breaker of threshold 2 has just failed: third failure
C13_Witness ==
    /\ cb.state = "OPEN" /\ cb_out.kind = "raised"
    /\ cb.failure_threshold = 2 /\ cb.failure_count = 3
    /\ cb.last_failure_time = cb_time /\ cb_time > 1

\* C14: in closed and half_open the gate never rejects; an exception of the
\* wrapped function reaches the caller as that same exception, after the
\* failure was recorded; and the breaker's only own error is the rejection
\* of a call it did not let through, made on an open breaker.
C14_ExceptionsPropagate ==
    /\ [][(cb.state # "OPEN" /\ call_gate) =>
              cb_out'.kind = "running" /\ cb_out'.error = None]_vars
    /\ [][\A e \in Exceptions :
             call_raise(e) =>
                 /\ cb_out'.kind = "raised" /\ cb_out'.error = e
                 /\ cb_out'.result = None
                 /\ cb'.failure_count = cb.failure_count + 1
                 /\ cb'.last_failure_time = cb_time]_vars
    /\ [][(cb_out' # cb_out /\ cb_out'.error # None) =>
              \/ /\ cb_out'.kind = "rejected" /\ ~cb_out'.invoked
                 /\ cb.state = "OPEN" /\ cb_out'.error = CircuitOpenError
              \/ /\ cb_out'.kind = "raised" /\ cb_out.kind = "running"
                 /\ cb_out'.error \in Exceptions]_vars

\* E2 raised through a closed breaker of threshold 3: second failure recorded
C14_Witness ==
    /\ cb.state = "CLOSED" /\ cb.failure_threshold = 3 /\ cb.failure_count = 2
    /\ cb_out.kind = "raised" /\ cb_out.error = "E2"
    /\ cb.last_failure_time = cb_time

-----------------------------------------------------------------------------
(* Properties of the retry wrapper (checked under SpecRetry) *)

Done == rt_out.kind \in {"returned", "raised"}

\* every exception the wrapped function raises is of a retryable kind
OnlyRetryable == \A n \in CallNumbers : func[n] = "ok" \/ func[n] \in policy.exceptions

\* the first invocation that succeeds; past CallNumbers if there is none
FirstSuccess ==
    IF \E n \in CallNumbers : func[n] = "ok"
    THEN CHOOSE n \in CallNumbers : func[n] = "ok" /\ \A m \in 1..(n - 1) : func[m] # "ok"
    ELSE Cardinality(CallNumbers) + 1

\* the first invocation that raises a kind which is not retryable
FirstFatal ==
    IF \E n \in CallNumbers : func[n] \notin policy.exceptions \cup {"ok"}
    THEN CHOOSE n \in CallNumbers :
             /\ func[n] \notin policy.exceptions \cup {"ok"}
             /\ \A m \in 1..(n - 1) : func[m] \in policy.exceptions \cup {"ok"}
    ELSE Cardinality(CallNumbers) + 1

RECURSIVE Pow(_, _)
Pow(b, n) == IF n = 0 THEN 1 ELSE b * Pow(b, n - 1)

\* C15: for a wrapped function that raises only retryable exceptions and
\* whose first success is its k-th invocation (none: k beyond every bound),
\* a call of the wrapper invokes it exactly min(k, max_retries + 1) times,
\* and never more than that while the call is running.
C15_AttemptCount ==
    OnlyRetryable =>
        /\ calls <= Min(FirstSuccess, policy.max_retries + 1)
        /\ Done => calls = Min(FirstSuccess, policy.max_retries + 1)

\* max_retries = 3 and a function that always raises: 4 invocations
C15_Witness ==
    /\ Done /\ policy.max_retries = 3 /\ calls = 4
    /\ \A n \in CallNumbers : func[n] = "ConnectionError"

\* C16: if the k-th invocation, k <= max_retries + 1, is the first to
\* succeed and the earlier ones raised retryable exceptions, the wrapper
\* returns the k-th invocation's value and invokes nothing more; if the
\* first max_retries + 1 invocations all raise retryable exceptions, the
\* wrapper raises the exception of the last of them, as it is.
C16_Outcome ==
    Done =>
        LET n == policy.max_retries + 1
            k == FirstSuccess
        IN  /\ (k <= n /\ k < FirstFatal) =>
                   /\ rt_out.kind = "returned"
                   /\ rt_out.result = ReturnValue(k)
                   /\ rt_out.error = NoException
                   /\ calls = k
            /\ (k > n /\ FirstFatal > n) =>
                   /\ rt_out.kind = "raised"
                   /\ rt_out.error = Exc(func[n], n)
                   /\ rt_out.result = NoValue
                   /\ calls = n

\* the function succeeded on its 2nd invocation: 2 invocations, its value
C16_Witness ==
    /\ rt_out.kind = "returned" /\ rt_out.result = ReturnValue(2) /\ calls = 2
    /\ func[1] = "ConnectionError" /\ policy.max_retries = 3

\* C17: an exception of a kind outside the retryable set leaves the wrapper
\* on the attempt where it is raised: the caller gets that exception, no
\* sleep follows, the loop does not advance, and nothing more is invoked.
C17_NonRetryablePropagates ==
    /\ [][(/\ rt_out.kind = "running"
           /\ func[calls + 1] \notin policy.exceptions \cup {"ok"}
           /\ func_raises) =>
              /\ rt_out'.kind = "raised"
              /\ rt_out'.error = Exc(func[calls + 1], calls + 1)
              /\ calls' = calls + 1
              /\ sleeps' = sleeps
              /\ attempt' = attempt]_vars
    /\ [][Done => calls' = calls /\ sleeps' = sleeps /\ rt_out' = rt_out]_vars
    /\ [](Done /\ FirstFatal = 1 => calls = 1 /\ sleeps = <<>>)

\* a ValueError on the 2nd attempt of a wrapper retrying ConnectionError only
C17_Witness ==
    /\ rt_out.kind = "raised" /\ rt_out.error = Exc("ValueError", 2)
    /\ policy.exceptions = {"ConnectionError"} /\ policy.max_retries = 3
    /\ calls = 2 /\ Len(sleeps) = 1

\* C18: the j-th sleep of a wrapper call lasts
\* min(initial_delay * exponential_base^(j-1), max_delay): the first sleep
\* lasts initial_delay, each later one the previous delay times
\* exponential_base, capped at max_delay, and no sleep follows the final
\* failed attempt.
C18_BackoffSchedule ==
    /\ \A j \in 1..Len(sleeps) :
           sleeps[j] = Min(policy.initial_delay * Pow(policy.exponential_base, j - 1),
                           policy.max_delay)
    /\ Len(sleeps) <= policy.max_retries

-----------------------------------------------------------------------------
(* Properties of the cache (checked under SpecCache) *)

\* key has an entry whose age has reached the ttl
Expired(key) ==
    key \in DOMAIN cache /\ cache_time - cache[key].timestamp >= ttl_seconds

\* C19 as stated: get(k) returns the value of the most recent set(k, v) iff
\* there was such a set and the time since it is less than the ttl;
\* otherwise it returns nothing.
C19_GetReturnsLatestSet ==
    [][\A k \in CacheKeys :
           cache_get(k) =>
               cache_ret'.value =
                   IF /\ set_log[k] # NoSet
                      /\ cache_time - set_log[k].timestamp < ttl_seconds
                   THEN set_log[k].value
                   ELSE None]_vars

\* C19, amended: get(k) returns the value of the most recent set(k, v) iff
\* there was such a set, clear() was not called after it, and the time since
\* it is less than the ttl; otherwise it returns nothing.  So a get right
\* after a set returns the value set, and a later set replaces the value
\* and restarts the ttl.
C19_GetReturnsLatestSetUnlessCleared ==
    /\ [][\A k \in CacheKeys :
             cache_get(k) =>
                 /\ cache_ret'.key = k
                 /\ cache_ret'.value =
                        IF /\ set_log[k] # NoSet
                           /\ ~set_log[k].cleared
                           /\ cache_time - set_log[k].timestamp < ttl_seconds
                        THEN set_log[k].value
                        ELSE None]_vars
    /\ [][\A k \in CacheKeys, v \in CacheValues :
             cache_set(k, v) => get_result(k)' = v]_vars

\* k1 was set to m1 and later to m2; a get a second after that, the ttl
\* being 2, returned m2
C19_Witness ==
    /\ cache_ret = CacheRet("k1", "m2", FALSE)
    /\ set_log["k1"].value = "m2" /\ ~set_log["k1"].cleared
    /\ set_log["k1"].timestamp > 0
    /\ cache_time - set_log["k1"].timestamp = 1 /\ ttl_seconds = 2

\* C20: a get(k) on an entry whose age has reached the ttl deletes the entry
\* from the dict and returns nothing, leaving every other key's entry as it
\* was; a set(k, v2) made on the cache without the entry puts it back, and a
\* get(k) then returns v2.
C20_LazyEviction ==
    /\ [][\A k \in CacheKeys :
             (Expired(k) /\ cache_get(k)) =>
                 /\ k \notin DOMAIN cache'
                 /\ cache_ret' = CacheRet(k, None, TRUE)
                 /\ DOMAIN cache' = DOMAIN cache \ {k}
                 /\ \A j \in DOMAIN cache' : cache'[j] = cache[j]]_vars
    /\ [][\A k \in CacheKeys, v \in CacheValues :
             (k \notin DOMAIN cache /\ cache_set(k, v)) =>
                 /\ cache'[k] = Entry(v, cache_time)
                 /\ get_result(k)' = v
                 /\ \A j \in DOMAIN cache : cache'[j] = cache[j]]_vars

\* the stale entry of k1 was evicted by a get, k2 is still cached
C20_Witness ==
    /\ cache_ret = CacheRet("k1", None, TRUE)
    /\ "k1" \notin DOMAIN cache /\ "k2" \in DOMAIN cache
    /\ ~set_log["k1"].cleared

\* C21: cleanup_expired removes exactly the entries whose age has reached
\* the ttl and keeps every other entry as it was; right after the sweep a
\* get of any remaining key is a hit, and a get of any removed key was a
\* miss already before the sweep.
C21_SweepRemovesExactlyExpired ==
    [][cleanup_expired =>
           /\ DOMAIN cache' =
                  {k \in DOMAIN cache : cache_time - cache[k].timestamp < ttl_seconds}
           /\ \A k \in DOMAIN cache' :
                  cache'[k] = cache[k] /\ get_result(k)' = cache[k].value
           /\ \A k \in DOMAIN cache \ DOMAIN cache' : get_result(k) = None]_vars

\* no get was made yet; the sweep removed the entry of k1 and kept k2's
C21_Witness ==
    /\ cache_ret = CacheRet(None, None, FALSE)
    /\ set_log["k1"] # NoSet /\ ~set_log["k1"].cleared /\ "k1" \notin DOMAIN cache
    /\ "k2" \in DOMAIN cache
    /\ cache_time - set_log["k1"].timestamp = ttl_seconds

-----------------------------------------------------------------------------
(* The batch processor *)

\* C22: for a batch of N papers with distinct ids, whatever the per-item
\* function does and in whatever order the tasks finish, the progress
\* callback is called with (1, N), (2, N), ... in this order, and when
\* process_papers_batch returns there are N results, the id of each paper is
\* in exactly one of them, and the callback was called N times.
C22_Completeness ==
    /\ batch_pc # "raised"
    /\ Len(progress) = completed
    /\ \A k \in DOMAIN progress : progress[k] = <<k, Len(papers)>>
    /\ batch_pc = "returned" =>
           /\ Len(results) = Len(papers)
           /\ Len(progress) = Len(papers)
           /\ \A p \in DOMAIN papers :
                  Cardinality({k \in DOMAIN results : results[k].item_id = papers[p].id}) = 1

\* three papers on two workers: the last paper's result came first, one
\* call returned a truthy value, one a falsy value and one raised
C22_Witness ==
    /\ batch_pc = "returned"
    /\ Len(papers) = 3 /\ max_workers = 2
    /\ results[1].item_id = "f3"
    /\ \E k \in DOMAIN results : results[k].success
    /\ \E k \in DOMAIN results : results[k].result = "False"
    /\ \E k \in DOMAIN results : results[k].error = "boom"
    /\ progress[3] = <<3, 3>>

\* C23: an exception of the per-item function ends in the result of its own
\* paper, as success = false with the text of the exception; no future holds
\* an exception, so collecting never raises out of process_papers_batch; the
\* other papers' tasks are untouched and every paper has its result when
\* process_papers_batch returns.
C23_ExceptionCaptured ==
    /\ [][\A i \in DOMAIN futures, o \in FuncOutcomes :
             (o.kind = "raise" /\ worker_finish(i, o)) =>
                 /\ futures'[i].exception = None
                 /\ futures'[i].result =
                        ProcessingResult(papers[i].id, FALSE, None, o.value)
                 /\ \A j \in DOMAIN futures \ {i} : futures'[j] = futures[j]
                 /\ batch_pc' = batch_pc]_vars
    /\ [](batch_pc # "raised")
    /\ [](batch_pc = "returned" =>
              \A p \in DOMAIN papers :
                  \E k \in DOMAIN results : results[k].item_id = papers[p].id)

\* the task of f1 raised, the tasks of f2 and f3 ran after it and succeeded
C23_Witness ==
    /\ batch_pc = "returned"
    /\ Len(papers) = 3 /\ max_workers = 1
    /\ results[1] = ProcessingResult("f1", FALSE, None, "boom")
    /\ results[2].success /\ results[3].success

-----------------------------------------------------------------------------
(* The rate limiter *)

\* C24: any two calls the limiter has let through, from whichever threads,
\* went through at times at least min_interval apart.
C24_Spacing ==
    \A i, j \in DOMAIN grants : i < j => grants[j] - grants[i] >= min_interval

-----------------------------------------------------------------------------
(* The orchestrator *)

HasRow(file_id) == \E r \in processed_files : r.file_id = file_id
AllSucceed(o) ==
    o.download # None /\ o.analysis # None /\ ~o.duplicate /\ o.create # None

\* C25: when the pipeline runs for a discovered paper that has no row yet
\* and download, analysis, duplicate check and creation all succeed, the
\* paper's row is completed with the page id that creation returned and its
\* result is a success; a completed row stays as it is to the end of the
\* run; and no batch of a later cycle, new files and retries together,
\* holds a paper whose row is completed.
C25_EndToEndSuccess ==
    /\ [][\A i \in DOMAIN futures, o \in Collabs :
             (/\ papers[i].keys = "drive"
              /\ ~HasRow(papers[i].id)
              /\ AllSucceed(o)
              /\ pipeline_finish(i, o)) =>
                 /\ is_processed(papers[i].id)'
                 /\ \E r \in processed_files' :
                        /\ r.file_id = papers[i].id
                        /\ r.status = "completed"
                        /\ r.notion_page_id = o.create
                 /\ futures'[i].result.success]_vars
    /\ [][\A r \in processed_files : r.status = "completed" => r \in processed_files']_vars
    /\ [][cycles' = cycles + 1 =>
             \A k \in DOMAIN papers' : ~is_processed(papers'[k].id)]_vars

\* C26: when the pipeline runs for a paper that came from get_failed_files,
\* its result carries the paper's file id, the download was attempted for
\* it, and its row is afterwards completed or failed with the time of this
\* run.
C26_FailedItemsRetried ==
    [][\A i \in DOMAIN futures, o \in Collabs :
          (papers[i].keys = "row" /\ pipeline_finish(i, o)) =>
              /\ futures'[i].result.item_id = papers[i].id
              /\ attempted'[i] # <<>> /\ attempted'[i][1] = "download_file"
              /\ \E r \in processed_files' :
                     /\ r.file_id = papers[i].id
                     /\ \/ r.status = "completed"
                        \/ /\ r.status = "failed"
                           /\ r.processed_at = LocalNow(clock, utc_offset)]_vars

\* the paper was found by discovery, has no completed row, and the pipeline
\* gets as far as the failing step
Fresh_analysis(i) ==
    get_in(cache, CacheKey(papers[i].id), cache_time, ttl_seconds) # None
Piped(i) == papers[i].keys = "drive" /\ ~is_processed(papers[i].id)
HasMetadata(i, o) == o.download # None /\ (Fresh_analysis(i) \/ o.analysis # None)
FailureText(i, o) ==
    IF o.download = None THEN "Failed to download " \o papers[i].name
    ELSE IF ~HasMetadata(i, o) THEN "Failed to analyze " \o papers[i].name
    ELSE "Failed to create Notion entry for " \o papers[i].name
Fails(i, o) ==
    \/ o.download = None
    \/ ~HasMetadata(i, o)
    \/ ~o.duplicate /\ o.create = None

\* C27: when the pipeline of a paper fails at the download, at the analysis
\* or at the creation of the page, the paper's row becomes failed with the
\* text of the error, the rows of other papers stay as they were, the
\* paper's result is success = false, the tasks of the other papers are
\* untouched and the batch and the process go on; collecting never raises,
\* every paper of a returned batch has a result, and the summary counts the
\* successes and the failures of all the papers.
C27_FailureIsolated ==
    /\ [][\A i \in DOMAIN futures, o \in Collabs :
             (Piped(i) /\ Fails(i, o) /\ pipeline_finish(i, o)) =>
                 /\ \E r \in processed_files' :
                        /\ r.file_id = papers[i].id
                        /\ r.status = "failed"
                        /\ r.error_message = FailureText(i, o)
                 /\ \A r \in processed_files' :
                        r.file_id # papers[i].id => r \in processed_files
                 /\ ~futures'[i].result.success
                 /\ futures'[i].exception = None
                 /\ \A j \in DOMAIN futures \ {i} : futures'[j] = futures[j]
                 /\ batch_pc' = batch_pc /\ process' = process]_vars
    /\ [](batch_pc # "raised")
    /\ [](batch_pc = "returned" =>
              /\ Len(results) = Len(papers)
              /\ \A i \in DOMAIN futures : futures[i].state = "finished")
    /\ [][summarise =>
             /\ summary'.successful + summary'.failed = Len(papers)
             /\ summary'.failed =
                    Cardinality({k \in DOMAIN results : ~results[k].success})]_vars

\* a cycle of two papers ended with one success and one failure in its
\* summary: the analysis of f1 failed, f2 has its page
C27_Witness ==
    /\ batch_pc = "idle" /\ cycles = 1
    /\ summary = Summary(1, 1)
    /\ \E r \in processed_files :
           /\ r.file_id = "f1" /\ r.status = "failed"
           /\ r.error_message = "Failed to analyze a.pdf"
    /\ \E r \in processed_files :
           r.file_id = "f2" /\ r.status = "completed" /\ r.notion_page_id = "p1"

DuplicateFound(i, o) == Piped(i) /\ HasMetadata(i, o) /\ o.duplicate

Terminal(i) ==
    /\ futures[i].state = "finished"
    /\ \E r \in processed_files :
           r.file_id = papers[i].id /\ r.status \in {"completed", "failed"}

\* C29: the process leaves the running state only into shutdown; while the
\* shutdown lasts no task is taken back (a waiting task stays or starts, a
\* running task stays or finishes, a finished one stays finished) and
\* nothing new is submitted; the process exits only from the shutdown, and
\* when it has exited every task that was submitted has finished its
\* pipeline and its paper has a completed or failed row.
C29_ShutdownDrains ==
    /\ [][process = "running" /\ process' # "running" =>
             process' = "shutting_down"]_vars
    /\ [][process = "shutting_down" =>
             /\ process' \in {"shutting_down", "exited"}
             /\ \A i \in DOMAIN futures :
                    /\ futures[i].state = "unsubmitted" => futures'[i] = futures[i]
                    /\ futures[i].state = "pending" =>
                           futures'[i].state \in {"pending", "running"}
                    /\ futures[i].state = "running" =>
                           futures'[i].state \in {"running", "finished"}
                    /\ futures[i].state = "finished" =>
                           futures'[i].state = "finished"]_vars
    /\ [](process = "exited" =>
              \A i \in DOMAIN futures :
                  futures[i].state # "unsubmitted" => Terminal(i))

\* the signal came while the batch was being submitted: the paper that was
\* submitted ran to its row, the other was never submitted
C29_Witness ==
    /\ process = "exited"
    /\ batch_pc = "submitting"
    /\ Len(papers) = 2
    /\ Terminal(1) /\ attempted[1] # <<>>
    /\ futures[2].state = "unsubmitted"

-----------------------------------------------------------------------------
(* The results of the batch processor *)

-----------------------------------------------------------------------------
(* The pipeline of one paper (checked under SpecRuns and SpecSync) *)

Completed(file_id) ==
    \E r \in processed_files : r.file_id = file_id /\ r.status = "completed"
\* the history entries that record a page created for file_id
PagesRecorded(file_id) ==
    {e \in processing_history :
        /\ e.file_id = file_id /\ e.action = "processed"
        /\ \E p \in PageIds : e.details = json_dumps("{notion_page_id: " \o p \o "}")}

\* C31: when the paper of a pipeline run has a completed row as the run
\* starts, the run calls none of download_file, analyze_paper,
\* check_duplicate and create_paper_entry, writes no row and no history
\* entry, leaves the cache alone and reports success; so create_paper_entry
\* is only called for a paper without a completed row, and no paper has two
\* recorded page creations.
C31_SkipFilter ==
    /\ [][\A i \in DOMAIN futures, o \in Collabs :
             (papers[i].keys = "drive" /\ Completed(papers[i].id)
                  /\ pipeline_finish(i, o)) =>
                 /\ attempted'[i] = <<>>
                 /\ processed_files' = processed_files
                 /\ processing_history' = processing_history
                 /\ history_seq' = history_seq
                 /\ cache' = cache
                 /\ futures'[i].result.success
                 /\ futures'[i].exception = None]_vars
    /\ [][\A i \in DOMAIN futures, o \in Collabs :
             (pipeline_finish(i, o)
                  /\ \E k \in DOMAIN attempted'[i] :
                         attempted'[i][k] = "create_paper_entry") =>
                 ~Completed(papers[i].id)]_vars
    /\ [](\A f \in FileIds : Cardinality(PagesRecorded(f)) <= 1)

\* the program was started again, found f1 once more, and the run of f1 was
\* skipped: its page is the one of the first run
C31_Witness ==
    /\ cycles = 2
    /\ Cardinality(PagesRecorded("f1")) = 1
    /\ \E i \in DOMAIN futures :
           /\ papers[i] = DrivePaper("f1", "a.pdf")
           /\ futures[i].state = "finished"
           /\ futures[i].result.success
           /\ attempted[i] = <<>>

-----------------------------------------------------------------------------
(* The pipeline called on its own (checked under SpecPipeline) *)

\* the places of a collaborator in the calls of the last run
Positions(name) == {k \in DOMAIN last_run.calls : last_run.calls[k] = name}

\* C32: in a run of the pipeline check_duplicate is called at most once,
\* only with the metadata of the paper in hand, after analyze_paper if the
\* run called it, and before create_paper_entry; create_paper_entry is
\* called only after check_duplicate: never if it answered true, exactly
\* once if it answered false.
C32_DuplicateGuardOrder ==
    /\ Cardinality(Positions("check_duplicate")) <= 1
    /\ \A k \in Positions("check_duplicate") :
           /\ last_run.metadata # None
           /\ \A j \in Positions("analyze_paper") : j < k
           /\ \A j \in Positions("create_paper_entry") : k < j
    /\ Positions("create_paper_entry") # {} => Positions("check_duplicate") # {}
    /\ Positions("check_duplicate") # {} =>
           Cardinality(Positions("create_paper_entry")) =
               (IF last_run.answers.duplicate THEN 0 ELSE 1)

\* a run that took the analysis from the cache and found a duplicate
C32_Witness ==
    /\ last_run.ran
    /\ last_run.answers.duplicate
    /\ last_run.calls = <<"download_file", "check_duplicate">>
    /\ Completed("f1")

\* the collaborator behind each breaker, and the error of the pipeline when
\* that collaborator returns nothing
Collaborator(d) ==
    CASE d = "drive" -> "download_file"
      [] d = "gemini" -> "analyze_paper"
      [] d = "notion" -> "create_paper_entry"
StepErrors(d) ==
    CASE d = "drive" -> {"Failed to download " \o n : n \in FileNames}
      [] d = "gemini" -> {"Failed to analyze " \o n : n \in FileNames}
      [] d = "notion" -> {"Failed to create Notion entry for " \o n : n \in FileNames}
\* the recorded runs that failed because the collaborator of d failed
StepFailures(d) ==
    {e \in processing_history :
        /\ e.action = "failed"
        /\ \E t \in StepErrors(d) : e.details = json_dumps("{error: " \o t \o "}")}
\* a recorded run shows that the collaborator of d answered once
Succeeded(d) ==
    CASE d = "drive" ->
             \/ StepFailures("gemini") \cup StepFailures("notion") # {}
             \/ \E e \in processing_history : e.action = "processed"
      [] d = "gemini" ->
             \/ StepFailures("notion") # {}
             \/ \E e \in processing_history : e.action = "processed"
      [] d = "notion" -> PagesRecorded("f1") # {}
\* no time has passed since the failures of d
WithinRecovery(d) ==
    \A e \in StepFailures(d) : e.timestamp = LocalNow(clock, utc_offset)

\* C33: when the collaborator behind a breaker has failed on every call, the
\* breaker is open once failure_threshold runs have failed at that step, and
\* while the cooldown lasts no further run reaches the collaborator, so no
\* further failure of the step is recorded.
C33_DependencyFailFast ==
    \A d \in DOMAIN circuits :
        ~Succeeded(d) =>
            /\ Cardinality(StepFailures(d)) >= circuits[d].failure_threshold =>
                   circuits[d].state = "OPEN"
            /\ WithinRecovery(d) =>
                   Cardinality(StepFailures(d)) <= circuits[d].failure_threshold

\* the cache holds an entry under k that it did not hold before the step
Cached(k) == k \in DOMAIN cache' /\ (k \in DOMAIN cache => cache'[k] # cache[k])
\* the cache has a fresh entry for the paper as the run starts
FreshEntry(file_id) ==
    /\ CacheKey(file_id) \in DOMAIN cache
    /\ Fresh(cache[CacheKey(file_id)], cache_time, ttl_seconds)

\* C34: an entry enters the cache only in a pipeline run that called
\* analyze_paper and got metadata from it, under the key of the run's paper
\* and with that metadata (a run whose analysis returned nothing leaves
\* every entry as it was or evicted); a run that starts with a fresh entry
\* for its paper does not call analyze_paper, and the metadata it goes on
\* with, to check_duplicate, to create_paper_entry and into the paper's
\* row, is the cached value.
C34_AnalysisCache ==
    /\ [][\A k \in CacheKeys \cup {CacheKey(f) : f \in FileIds} :
             Cached(k) =>
                 \E n \in FileNames, o \in Collabs :
                     /\ run_pipeline(DrivePaper("f1", n), o)
                     /\ k = CacheKey("f1")
                     /\ o.analysis # None
                     /\ \E j \in DOMAIN last_run'.calls :
                            last_run'.calls[j] = "analyze_paper"
                     /\ cache'[k].value = WithDriveFileId(o.analysis, "f1")
                     /\ cache'[k].value = last_run'.metadata]_vars
    /\ [][\A n \in FileNames, o \in Collabs :
             (FreshEntry("f1") /\ run_pipeline(DrivePaper("f1", n), o)) =>
                 /\ \A j \in DOMAIN last_run'.calls :
                        last_run'.calls[j] # "analyze_paper"
                 /\ cache' = cache
                 /\ (\E j \in DOMAIN last_run'.calls :
                         last_run'.calls[j] = "check_duplicate") =>
                        last_run'.metadata = cache[CacheKey("f1")].value
                 /\ \A r \in processed_files' :
                        (r.status = "completed" /\ r.notion_page_id # NULL) =>
                            r.metadata = json_dumps(cache[CacheKey("f1")].value)]_vars

\* the page of f1 was created from the cached analysis of an earlier run
C34_Witness ==
    /\ last_run.calls = <<"download_file", "check_duplicate", "create_paper_entry">>
    /\ last_run.outcome = Returns("True")
    /\ CacheKey("f1") \in DOMAIN cache
    /\ \E r \in processed_files :
           /\ r.file_id = "f1" /\ r.status = "completed"
           /\ r.metadata = json_dumps(cache[CacheKey("f1")].value)

-----------------------------------------------------------------------------
(* The breaker under concurrent callers (checked under SpecSharedBreaker) *)

InRecordFailure(t) == cb_local[t].pc \in {"load", "store", "stamp", "test", "open"}

\* C35: while the breaker has not recovered, failure_count is the number of
\* failures recorded by the calls of all threads; once that number has
\* reached failure_threshold and no thread is still recording, the breaker
\* is not closed; and no call is let through as a closed-state call after
\* failure_count has reached failure_threshold.
C35_BookkeepingRaceFree ==
    ~cb_log.recovered =>
        /\ cb.failure_count = cb_log.raised
        /\ (cb_log.raised >= cb.failure_threshold
                /\ \A t \in Threads : ~InRecordFailure(t)) => cb.state # "CLOSED"
        /\ \A t \in Threads :
               cb_local[t].admitted = "closed" => cb_local[t].seen < cb.failure_threshold

\* thread t is in the wrapped function, let in as the trial call or while
\* the breaker was half_open
InTrial(t) == cb_local[t].pc = "func" /\ cb_local[t].admitted \in {"trial", "half_open"}
\* thread t is the trial call, between line 30 and the end of the call
TrialRunning(t) ==
    /\ cb_local[t].admitted = "trial"
    /\ cb_local[t].pc \in {"func", "close", "load", "store", "stamp", "test", "open"}

\* C36: while the breaker is half_open at most one call is in the wrapped
\* function as a trial, whatever the number of callers.
C36_SingleTrial ==
    cb.state = "HALF_OPEN" => Cardinality({t \in Threads : InTrial(t)}) <= 1

\* C36, as the code has it: as long as no two calls have overlapped, the
\* breaker is half_open exactly while the call that found it open after the
\* cooldown is running, and only that call is in progress; the breaker
\* holds no caller back: a call that finds it half_open, or open with the
\* cooldown over, goes on to the wrapped function.
C36_OneTrialWithoutOverlap ==
    /\ [](~cb_log.overlapped =>
              /\ cb.state = "HALF_OPEN" <=> \E t \in Threads : TrialRunning(t)
              /\ Cardinality({t \in Threads : InCall(t)}) <= 1)
    /\ [][\A t \in Threads :
             (call_check(t) /\ (cb.state = "HALF_OPEN"
                                   \/ (cb.state = "OPEN" /\ CooldownOver(cb, cb_time)))) =>
                 cb_local'[t].pc \in {"func", "half_open"}]_vars

\* calls one after the other: the breaker opened, the cooldown passed, and
\* the trial call is in the wrapped function
C36_Witness ==
    /\ ~cb_log.overlapped
    /\ cb.state = "HALF_OPEN"
    /\ cb.failure_count >= cb.failure_threshold
    /\ InTrial("w2")
    /\ cb_local["w2"].admitted = "trial"
    /\ ~InCall("w1")

-----------------------------------------------------------------------------
(* The cache under concurrent callers (checked under SpecSharedCache) *)

\* C37: whatever the interleaving of get, set and cleanup_expired on a key,
\* no call raises, and the value of a set that completed less than
\* ttl_seconds ago is still in the cache under its key (so a get that
\* follows returns it): an eviction never removes it.
C37_CacheRaceFree ==
    /\ cache_log.errors = {}
    /\ \A k \in CacheKeys :
           (set_log[k] # NoSet /\ cache_time - set_log[k].timestamp < ttl_seconds) =>
               /\ k \in DOMAIN cache
               /\ cache[k].value = set_log[k].value

-----------------------------------------------------------------------------
(* The breaker's count (checked under SpecBreaker) *)

\* C38: a call through a closed breaker whose function returns leaves
\* failure_count, last_failure_time and state as they were; a call through
\* a closed breaker whose function raises adds one to failure_count, and
\* opens the breaker exactly when the count reaches failure_threshold; the
\* count only goes back to 0 when a trial call succeeds.  So the failures
\* since the last recovery add up across the successes between them.
C38_SuccessKeepsCount ==
    /\ [][\A v \in ReturnValues :
             (cb.state = "CLOSED" /\ call_return(v)) => cb' = cb]_vars
    /\ [][\A e \in Exceptions :
             (cb.state = "CLOSED" /\ call_raise(e)) =>
                 /\ cb'.failure_count = cb.failure_count + 1
                 /\ cb'.state = "OPEN" <=> cb.failure_count + 1 >= cb.failure_threshold
                 /\ cb'.state \in {"OPEN", "CLOSED"}]_vars
    /\ [][cb'.failure_count < cb.failure_count =>
             /\ cb.state = "HALF_OPEN" /\ cb'.state = "CLOSED"
             /\ cb'.failure_count = 0
             /\ \E v \in ReturnValues : call_return(v)]_vars
    /\ [](cb.state = "CLOSED" => cb.failure_count < cb.failure_threshold)

\* a call succeeded through the closed breaker after a failure, and the
\* failure is still counted
C38_Witness ==
    /\ cb.state = "CLOSED"
    /\ cb_out.kind = "returned"
    /\ cb.failure_count = 2
    /\ cb.failure_threshold = 3

\* C39: state is CLOSED, OPEN or HALF_OPEN, failure_count is at least 0, an
\* open or half_open breaker has failure_count >= failure_threshold, and
\* the breaker is half_open only while the trial call is running.
C39_StateInvariant ==
    /\ cb.state \in {"CLOSED", "OPEN", "HALF_OPEN"}
    /\ cb.failure_count \in Nat
    /\ cb.state \in {"OPEN", "HALF_OPEN"} => cb.failure_count >= cb.failure_threshold
    /\ cb.state = "HALF_OPEN" => cb_out.kind = "running"

\* a second trial call is running, after the first one failed
C39_Witness ==
    /\ cb.state = "HALF_OPEN"
    /\ cb_out.kind = "running"
    /\ cb.failure_count > cb.failure_threshold

-----------------------------------------------------------------------------
(* C40: write atomicity of the tracking store *)

\* the history entries of a file
EntriesOf(hist, file_id) == {h \in hist : h.file_id = file_id}

\* a write that returned: the row is the one written, and the history has
\* exactly one entry more, for the same file and with the next id
WrittenTogether(file_id, row, action) ==
    /\ {r \in processed_files' : r.file_id = file_id} = {row}
    /\ history_seq' = history_seq + 1
    /\ \E h \in processing_history' :
           /\ processing_history' = processing_history \cup {h}
           /\ h \notin processing_history
           /\ h.file_id = file_id /\ h.action = action /\ h.id = history_seq'
    /\ store_exc' = NoStoreExc

\* a write that raised: the exception reaches the caller and the tables and
\* the id counter are as before the call
NothingWritten(statement) ==
    /\ store_exc'.exc # None /\ store_exc'.statement = statement
    /\ UNCHANGED <<processed_files, processing_history, history_seq>>

\* C40: in mark_as_processed and mark_as_failed the upsert of the record and
\* the insert of the history entry become visible together, in one commit;
\* when the upsert, the history insert or the commit raises, the exception
\* propagates to the caller and neither the record change nor the history
\* entry is visible afterwards: the store is as before the call.
C40_WriteAtomicity ==
    [][ /\ \A f \in FileIds, n \in FileNames :
            /\ \A a \in SuccessArgs :
                   /\ mark_as_processed(f, n, a[1], a[2]) =>
                          WrittenTogether(f, ProcessedRow(f, n, a[1], a[2],
                                             LocalNow(clock, utc_offset)), "processed")
                   /\ \A st \in WriteStatements :
                          mark_as_processed_raises(f, n, a[1], a[2], st) => NothingWritten(st)
            /\ \A e \in ErrorMessages :
                   /\ mark_as_failed(f, n, e) =>
                          WrittenTogether(f, FailedRow(f, n, e, LocalNow(clock, utc_offset)),
                                          "failed")
                   /\ \A st \in WriteStatements :
                          mark_as_failed_raises(f, n, e, st) => NothingWritten(st)
        /\ (processed_files' # processed_files /\ store_exc' = NoStoreExc
               /\ ~ \E t \in TextFiles : migrate_from_text_file(t))
             => processing_history' # processing_history ]_vars

\* a write has raised at its commit, after both statements ran, in a store that
\* holds a completed record and its history entry
C40_Witness ==
    /\ store_exc.exc # None
    /\ store_exc.statement = "commit"
    /\ \E r \in processed_files :
           /\ r.status = "completed"
           /\ EntriesOf(processing_history, r.file_id) # {}

====
